---------------------------- MODULE Spec2Model ----------------------------
(***************************************************************************)
(* Verification model of the Mari chat application                         *)
(* (kurotya-969/mari-chat2): ChatInterface text functions, MemoryManager,  *)
(* SceneManager, DialogueGenerator and the chat-turn handling of main_app  *)
(* and streamlit_app.                                                      *)
(*                                                                         *)
(* Text is a sequence of characters.  A character is a one-element string, *)
(* a named control character ("LF", "TAB", "VT", "SOH"), or the token      *)
(* "[HIDDEN:" which stands for that eight-character substring.             *)
(***************************************************************************)
EXTENDS Integers, Sequences, FiniteSets, TLC

VARIABLES
    ci_v,        \* ChatInterface: first text argument (message / visible)
    ci_h,        \* ChatInterface: second text argument (hidden)
    ci_op,       \* ChatInterface: the operation applied last
    ci_prev,     \* ChatInterface: the result of the operation before the last
    ci_res,      \* ChatInterface: the result of the operation applied last
    mm_cache,    \* MemoryManager.important_words_cache (a list of words)
    mm_ret,      \* MemoryManager: what the last compress_history call returned
    sc_history,  \* SceneManager: the history argument, a list of (user, mari) texts
    sc_theme,    \* SceneManager: the current_theme argument
    sc_client,   \* SceneManager: whether groq_client is configured
    sc_reply,    \* SceneManager: the provider reply consumed by the last call
    sc_out,      \* SceneManager: outcome of the last detect_scene_change
    app,         \* which entry point serves the session: main_app / streamlit_app
    env,         \* which provider credentials the environment holds
    now,         \* the wall clock
    ss_messages, \* st.session_state.chat['messages'] / st.session_state.messages
    ss_affection,     \* the session's affection
    ss_theme,         \* the session's scene_params['theme']
    ss_limiter,       \* the session's limiter_state
    ss_last_sent,     \* st.session_state.last_sent_message, <<"absent">> when deleted
    ss_notifications, \* st.session_state.affection_notifications
    obs,         \* what the handler that ran last did
    ss_ura_mode, \* st.session_state.chat['ura_mode']
    ss_user_id,  \* st.session_state.user_id
    ss_show_all_hidden, \* st.session_state.show_all_hidden, FALSE while absent
    ss_flip_states,     \* st.session_state.message_flip_states, empty while absent
    ms_queued,   \* how often each milestone was queued since the last reset
    ss_full_reset_confirm, \* st.session_state.full_reset_confirm, FALSE while absent
    ss_memory_notifications, \* st.session_state.memory_notifications
    dg_call,     \* DialogueGenerator.call_llm: the arguments of the call
    dg_ret,      \* DialogueGenerator.call_llm: how the call ended
    iso_chat,    \* several sessions: st.session_state of each of them
    iso_heap,    \* several sessions: the MemoryManager objects, by reference
    iso_actor,   \* several sessions: the session whose handler ran last
    iso_sends,   \* several sessions: the messages processed so far
    rt_client,   \* letter clients: which client runs (groq / together)
    rt_outcomes, \* letter clients: how the provider answers call 1, 2, 3
    rt_attempt,  \* letter clients: the loop variable attempt
    rt_pc,       \* letter clients: where the coroutine stands
    rt_calls,    \* letter clients: the provider calls made so far
    rt_waits,    \* letter clients: the delays slept so far, in seconds
    rt_result,   \* letter clients: what the coroutine returned
    lt_theme,    \* tutorial letter: len(theme)
    lt_outcome,  \* tutorial letter: what the letter generator does
    lt_content,  \* tutorial letter: letter_result['content'], by sentence
    lt_result    \* tutorial letter: the text returned

civars == <<ci_v, ci_h, ci_op, ci_prev, ci_res>>
mmvars == <<mm_cache, mm_ret>>
scvars == <<sc_history, sc_theme, sc_client, sc_reply, sc_out>>
ssvars == <<app, env, now, ss_messages, ss_affection, ss_theme, ss_limiter,
            ss_last_sent, ss_notifications, obs>>

\* the session state of main_app beyond the chat turn
sxvars == <<ss_ura_mode, ss_user_id, ss_show_all_hidden, ss_flip_states, ms_queued,
            ss_full_reset_confirm, ss_memory_notifications>>

Milestones == {40, 60, 80, 100}

NoMilestones == [m \in Milestones |-> 0]

SxIdle ==
    /\ ss_ura_mode = FALSE /\ ss_user_id = "sid_a"
    /\ ss_show_all_hidden = FALSE /\ ss_flip_states = <<>>
    /\ ms_queued = NoMilestones
    /\ ss_full_reset_confirm = FALSE
    /\ ss_memory_notifications = <<>>

\* the variables of the components that run on their own
dgvars == <<dg_call, dg_ret>>
isovars == <<iso_chat, iso_heap, iso_actor, iso_sends>>
rtvars == <<rt_client, rt_outcomes, rt_attempt, rt_pc, rt_calls, rt_waits, rt_result>>
ltvars == <<lt_theme, lt_outcome, lt_content, lt_result>>
xvars == <<dgvars, isovars, rtvars, ltvars>>

\* the values of the variables of a component that a specification leaves out
DgIdle == dg_call = <<>> /\ dg_ret = <<>>

IsoIdle == iso_chat = <<>> /\ iso_heap = <<>> /\ iso_actor = 0 /\ iso_sends = 0

RtIdle ==
    /\ rt_client = "none" /\ rt_outcomes = <<>> /\ rt_attempt = 0 /\ rt_pc = "idle"
    /\ rt_calls = 0 /\ rt_waits = <<>> /\ rt_result = "none"

LtIdle == lt_theme = 0 /\ lt_outcome = "absent" /\ lt_content = <<>> /\ lt_result = <<>>

XIdle == DgIdle /\ IsoIdle /\ RtIdle /\ LtIdle

CiIdle ==
    /\ ci_v = <<>> /\ ci_h = <<>>
    /\ ci_op = "none" /\ ci_prev = <<>> /\ ci_res = <<>>

MmIdle == mm_cache = <<>> /\ mm_ret = <<>>

ScIdle ==
    /\ sc_history = <<>> /\ sc_theme = "default" /\ sc_client = FALSE
    /\ sc_reply = <<>> /\ sc_out = <<>>

SsIdle ==
    /\ app = "none" /\ env = [gemini |-> FALSE, groq |-> FALSE] /\ now = 0
    /\ ss_messages = <<>> /\ ss_affection = 0 /\ ss_theme = "default"
    /\ ss_limiter = [timestamps |-> <<>>, is_blocked |-> FALSE]
    /\ ss_last_sent = <<"absent">> /\ ss_notifications = <<>>
    /\ obs = [op |-> "none"]

(***************************************************************************)
(* Bounds of the model.                                                    *)
(***************************************************************************)
MaxVisLen == 3      \* longest visible / message text drawn as an input
MaxHidLen == 2      \* longest hidden text drawn as an input

(***************************************************************************)
(* Characters and Python's str helpers.                                    *)
(***************************************************************************)
\* ord(char) of the characters the model uses
Ord(c) ==
    CASE c = "SOH" -> 1
      [] c = "TAB" -> 9
      [] c = "LF"  -> 10
      [] c = "VT"  -> 11
      [] c = " "   -> 32
      [] OTHER     -> 97

\* str.isspace(): what str.strip() removes and what the pattern \s matches
IsSpace(c) == c \in {" ", "TAB", "LF", "VT"}

RECURSIVE LStrip(_)
LStrip(s) == IF s # <<>> /\ IsSpace(Head(s)) THEN LStrip(Tail(s)) ELSE s

RECURSIVE RStrip(_)
RStrip(s) ==
    IF s # <<>> /\ IsSpace(s[Len(s)]) THEN RStrip(SubSeq(s, 1, Len(s) - 1)) ELSE s

\* str.strip()
Strip(s) == RStrip(LStrip(s))

\* all texts over alphabet A of length at most n
TextsUpTo(A, n) == UNION {[1..k -> A] : k \in 0..n}

(***************************************************************************)
(* ChatInterface._detect_hidden_content and create_hidden_content_message  *)
(***************************************************************************)
HiddenOpen == "[HIDDEN:"

\* f"[HIDDEN:{hidden_content}]{visible_content}"
create_hidden_content_message(visible, hidden) ==
    <<HiddenOpen>> \o hidden \o <<"]">> \o visible

\* the index of the "]" that closes a marker opened at i, or 0: the pattern
\* \[HIDDEN:(.*?)\] takes the first "]" after i, and "." matches no newline
MarkerClose(s, i) ==
    LET closers == {j \in (i + 1)..Len(s) : s[j] = "]"}
    IN  IF s[i] # HiddenOpen \/ closers = {} THEN 0
        ELSE LET j == CHOOSE x \in closers : \A y \in closers : x <= y
             IN  IF \E k \in (i + 1)..(j - 1) : s[k] = "LF" THEN 0 ELSE j

\* the rest of the line after position j: the group (.*) stops at a newline
RestOfLine(s, j) ==
    LET breaks == {k \in (j + 1)..Len(s) : s[k] = "LF"}
        stop   == IF breaks = {} THEN Len(s) + 1
                  ELSE CHOOSE x \in breaks : \A y \in breaks : x <= y
    IN  SubSeq(s, j + 1, stop - 1)

\* re.search(r'\[HIDDEN:(.*?)\](.*)', content): the leftmost match
_detect_hidden_content(content) ==
    LET starts == {i \in 1..Len(content) : MarkerClose(content, i) # 0}
    IN  IF starts # {}
        THEN LET i == CHOOSE x \in starts : \A y \in starts : x <= y
                 j == MarkerClose(content, i)
             IN  [has     |-> TRUE,
                  visible |-> Strip(RestOfLine(content, j)),
                  hidden  |-> Strip(SubSeq(content, i + 1, j - 1))]
        ELSE [has |-> FALSE, visible |-> content, hidden |-> <<>>]

(***************************************************************************)
(* ChatInterface.sanitize_message and ChatInterface.validate_input         *)
(***************************************************************************)
MaxInputLen == 3    \* stands for max_input_length / MAX_INPUT_LENGTH, scaled

\* the HTML escape that also escapes "&" (a variant used to test the claims)
RECURSIVE HtmlEscapeAmp(_)
HtmlEscapeAmp(s) ==
    IF s = <<>> THEN <<>>
    ELSE (CASE Head(s) = "<" -> <<"&", "l", "t", ";">>
            [] Head(s) = ">" -> <<"&", "g", "t", ";">>
            [] Head(s) = "&" -> <<"&", "a", "m", "p", ";">>
            [] OTHER         -> <<Head(s)>>) \o HtmlEscapeAmp(Tail(s))

\* sanitized.replace("<", "&lt;").replace(">", "&gt;")
RECURSIVE HtmlEscape(_)
HtmlEscape(s) ==
    IF s = <<>> THEN <<>>
    ELSE (CASE Head(s) = "<" -> <<"&", "l", "t", ";">>
            [] Head(s) = ">" -> <<"&", "g", "t", ";">>
            [] OTHER         -> <<Head(s)>>) \o HtmlEscape(Tail(s))

\* re.sub(r'\s+', ' ', s): every maximal run of whitespace becomes one space
RECURSIVE CollapseSpaces(_)
CollapseSpaces(s) ==
    IF s = <<>> THEN <<>>
    ELSE IF IsSpace(Head(s))
         THEN <<" ">> \o CollapseSpaces(LStrip(s))
         ELSE <<Head(s)>> \o CollapseSpaces(Tail(s))

sanitize_message(message) == CollapseSpaces(HtmlEscape(Strip(message)))

ErrEmpty   == "message is empty"
ErrTooLong == "message is too long"
ErrInvalid == "message contains invalid characters"

\* a validate_input that rejects a message of exactly max_input_length
validate_input_off_by_one(message, max_input_length) ==
    IF message = <<>> \/ Strip(message) = <<>> THEN <<FALSE, ErrEmpty>>
    ELSE IF Len(message) >= max_input_length THEN <<FALSE, ErrTooLong>>
    ELSE IF \E i \in 1..Len(message) :
                Ord(message[i]) < 32 /\ message[i] \notin {"LF", "CR", "TAB"}
         THEN <<FALSE, ErrInvalid>>
    ELSE <<TRUE, "">>

validate_input(message, max_input_length) ==
    IF message = <<>> \/ Strip(message) = <<>> THEN <<FALSE, ErrEmpty>>
    ELSE IF Len(message) > max_input_length THEN <<FALSE, ErrTooLong>>
    ELSE IF \E i \in 1..Len(message) :
                Ord(message[i]) < 32 /\ message[i] \notin {"LF", "CR", "TAB"}
         THEN <<FALSE, ErrInvalid>>
    ELSE <<TRUE, "">>

(***************************************************************************)
(* MemoryManager.  A word is a number 1..NumWords; a message content is a  *)
(* sequence of words (the text, tokenised).  What the extraction rules     *)
(* read of a word (its script, its length, whether it is a stop word or a  *)
(* thematic keyword) is a function of the number.                          *)
(***************************************************************************)
NumWords == 26          \* size of the vocabulary of the message streams

history_threshold == 10 \* MemoryManager(history_threshold=10)
keep_recent == 4
MaxCachedKeywords == 20
MaxExtractedKeywords == 15

\* the k-th word of the vocabulary (k wraps around)
Word(k) == ToString(((k - 1) % NumWords) + 1)

\* the number of a vocabulary word, 0 for any other token
WordIndex(w) ==
    IF \E k \in 1..NumWords : ToString(k) = w
    THEN CHOOSE k \in 1..NumWords : ToString(k) = w
    ELSE 0

\* the script of a token: "beach" and "cafe" stand for the katakana words
Script(w) ==
    CASE w \in {"beach", "cafe"} -> "katakana"
      [] WordIndex(w) = 0        -> "other"
      [] WordIndex(w) % 3 = 0    -> "latin"
      [] WordIndex(w) % 3 = 1    -> "katakana"
      [] OTHER                   -> "kanji"

WordLen(w) ==
    CASE w \in {"beach", "cafe"} -> 3
      [] WordIndex(w) % 4 = 0    -> 4
      [] WordIndex(w) % 7 = 0    -> 1
      [] WordIndex(w) % 3 = 0    -> 3
      [] OTHER                   -> 2

IsStopWord(w) == w = Word(1)

IsCategoryKeyword(w) == w = "cafe" \/ (WordIndex(w) # 0 /\ WordIndex(w) % 5 = 0)

\* messages[:-keep_recent] and messages[-keep_recent:]
DropLast(s, n) == SubSeq(s, 1, Len(s) - n)
TakeLast(s, n) == SubSeq(s, Len(s) - n + 1, Len(s))

RECURSIVE Flatten(_)
Flatten(ss) == IF ss = <<>> THEN <<>> ELSE Head(ss) \o Flatten(Tail(ss))

\* the distinct elements of a sequence, in the order of their first occurrence
RECURSIVE Distinct(_)
Distinct(s) ==
    IF s = <<>> THEN <<>>
    ELSE LET init == Distinct(SubSeq(s, 1, Len(s) - 1))
             last == s[Len(s)]
         IN  IF \E i \in 1..Len(init) : init[i] = last THEN init
             ELSE Append(init, last)

Range(s) == {s[i] : i \in 1..Len(s)}

Occurrences(w, s) == Cardinality({i \in 1..Len(s) : s[i] = w})

\* re.findall of one of important_patterns: Latin words of 3+ letters,
\* katakana runs of 2+, ideograph runs of 2+
PatternMatches(text, script) ==
    SelectSeq(text, LAMBDA w : Script(w) = script
                               /\ WordLen(w) >= (IF script = "latin" THEN 3 ELSE 2))

\* the thematic keywords that occur in the text, in the order of the lists
CategoryHits(text) ==
    SelectSeq(<<"cafe">> \o [k \in 1..NumWords |-> Word(k)],
              LAMBDA w : IsCategoryKeyword(w) /\ w \in Range(text))

\* sorted(filtered_words, key=get_importance_score, reverse=True): the sort
\* is stable, so a word stays ahead of the later words of the same score
RECURSIVE SortByScore(_, _)
SortByScore(words, score) ==
    IF words = <<>> THEN <<>>
    ELSE LET rest == SortByScore(Tail(words), score)
             w    == Head(words)
             k    == Cardinality({i \in 1..Len(rest) : score[rest[i]] > score[w]})
         IN  SubSeq(rest, 1, k) \o <<w>> \o SubSeq(rest, k + 1, Len(rest))

_extract_with_rules(text) ==
    LET important_words == PatternMatches(text, "latin")
                           \o PatternMatches(text, "katakana")
                           \o PatternMatches(text, "kanji")
                           \o CategoryHits(text)
        counted  == Distinct(important_words)
        filtered == SelectSeq(counted, LAMBDA w : WordLen(w) >= 2 /\ ~IsStopWord(w))
        score    == [w \in Range(important_words) |->
                        Occurrences(w, important_words)
                        + (IF IsCategoryKeyword(w) THEN 2 ELSE 0)
                        + (IF WordLen(w) >= 4 THEN 1 ELSE 0)]
        sorted_words == SortByScore(filtered, score)
    IN  SubSeq(sorted_words, 1,
               IF Len(sorted_words) < MaxExtractedKeywords
               THEN Len(sorted_words) ELSE MaxExtractedKeywords)

extract_important_words(messages) ==
    _extract_with_rules(
        Flatten([i \in 1..Len(messages) |-> messages[i].content]))

\* a test that waits for one user message more (a variant used to test the
\* claims)
should_compress_history_late(messages) ==
    Cardinality({i \in 1..Len(messages) : messages[i].role = "user"})
        > history_threshold

should_compress_history(messages) ==
    Cardinality({i \in 1..Len(messages) : messages[i].role = "user"})
        >= history_threshold

\* list(set(words)): the elements once each, in an order that depends on the
\* hash seed of the process; the model draws it from the ascending and the
\* descending order and their rotations by half the length
RECURSIVE Ascending(_)
Ascending(S) ==
    IF S = {} THEN <<>>
    ELSE LET m == CHOOSE x \in S : \A y \in S : WordIndex(x) <= WordIndex(y)
         IN  <<m>> \o Ascending(S \ {m})

Reverse(s) == [i \in 1..Len(s) |-> s[Len(s) + 1 - i]]

ListsOfSet(S) ==
    LET asc == Ascending(S)
        n   == Len(asc)
    IN  IF n = 0 THEN {<<>>}
        ELSE {SubSeq(base, r + 1, n) \o SubSeq(base, 1, r) :
                 base \in {asc, Reverse(asc)}, r \in {0, n \div 2}}

\* all_keywords[:20] that keeps one entry more (a variant used to test the claims)
TruncateCacheOffByOne(all_keywords) ==
    SubSeq(all_keywords, 1,
           IF Len(all_keywords) < MaxCachedKeywords + 1
           THEN Len(all_keywords) ELSE MaxCachedKeywords + 1)

\* all_keywords[:20]
TruncateCache(all_keywords) ==
    SubSeq(all_keywords, 1,
           IF Len(all_keywords) < MaxCachedKeywords
           THEN Len(all_keywords) ELSE MaxCachedKeywords)

\* list(set(self.important_words_cache + new_keywords))
MergedKeywords(cache, new_keywords) == ListsOfSet(Range(cache \o new_keywords))

\* compress_history: the possible (recent_messages, cache) outcomes
compress_history(messages, cache) ==
    IF ~should_compress_history(messages)
    THEN {[messages |-> messages, cache |-> cache]}
    ELSE LET old_messages    == IF Len(messages) > keep_recent
                                THEN DropLast(messages, keep_recent) ELSE <<>>
             recent_messages == IF Len(messages) > keep_recent
                                THEN TakeLast(messages, keep_recent) ELSE messages
         IN  IF old_messages # <<>>
             THEN {[messages |-> recent_messages, cache |-> TruncateCache(all)] :
                      all \in MergedKeywords(cache,
                                             extract_important_words(old_messages))}
             ELSE {[messages |-> recent_messages, cache |-> cache]}

(***************************************************************************)
(* SceneManager.  A history is a list of (user, mari) pairs of texts; the  *)
(* Japanese keywords are written as English tokens.                        *)
(***************************************************************************)
Themes ==
    {"default", "room_night", "beach_sunset", "festival_night", "shrine_day",
     "cafe_afternoon", "aquarium_night"}

None == "None"

RecentTurns == 5

location_keywords ==
    {"beach", "sea", "sands", "coast", "seaside", "shore",
     "shrine", "temple", "buddhist_temple", "torii", "precincts",
     "cafe", "coffee_shop", "shop", "restaurant",
     "festival", "fireworks", "food_stall", "fair",
     "room", "house", "indoors", "bedroom", "living_room",
     "aquarium", "aquarium_kana",
     "go", "lets_go", "head_for", "arrived", "arrival", "move", "go_out",
     "came", "be", "be_at",
     "evening_sun", "sunset_glow", "sunset", "wave", "sea_breeze",
     "visit_shrine", "worship", "prayer", "fortune_slip",
     "coffee", "tea", "latte", "espresso",
     "yukata", "night_stall", "matsuri", "festival_kana",
     "bed", "night", "inside", "in_the_house",
     "fish", "tank", "dolphin", "jellyfish", "sea_creatures"}

\* "\n".join(f"ユーザー: {u}\n麻理: {m}" for u, m in recent_history)
RECURSIVE HistoryText(_)
HistoryText(turns) ==
    IF turns = <<>> THEN <<>>
    ELSE <<"User:">> \o Head(turns)[1] \o <<"LF", "Mari:">> \o Head(turns)[2]
         \o (IF Len(turns) > 1 THEN <<"LF">> ELSE <<>>) \o HistoryText(Tail(turns))

_has_location_keywords(text) ==
    \E keyword \in location_keywords : \E i \in 1..Len(text) : text[i] = keyword

\* what the chat-completion call can give back
ProviderReplies ==
    {[kind |-> k, scene |-> "", scene_is_str |-> TRUE] :
        k \in {"raise", "empty", "not_json", "json_not_object", "json_no_scene"}}
    \cup {[kind |-> "json", scene |-> x, scene_is_str |-> TRUE] :
             x \in Themes \cup {"none", "moon_base"}}
    \cup {[kind |-> "json", scene |-> "42", scene_is_str |-> FALSE]}

\* a detector that accepts the current theme (a variant used to test the claims)
_detect_scene_accepting_current(reply, current_theme) ==
    IF reply.kind \in {"raise", "empty", "not_json", "json_not_object"} THEN None
    ELSE LET scene_value == IF reply.kind = "json_no_scene" THEN "none"
                            ELSE reply.scene
         IN  IF /\ reply.kind = "json_no_scene" \/ reply.scene_is_str
                /\ scene_value # "none"
                /\ scene_value \in Themes
             THEN scene_value
             ELSE None

\* a detector that takes the scene of the reply as it comes (a variant used
\* to test the claims)
_detect_scene_unchecked(reply, current_theme) ==
    IF reply.kind \in {"raise", "empty", "not_json", "json_not_object"} THEN None
    ELSE IF reply.kind = "json_no_scene" \/ reply.scene = "none" THEN None
    ELSE reply.scene

\* _detect_scene_with_groq: the value returned for a provider reply
_detect_scene_with_groq(reply, current_theme) ==
    CASE reply.kind = "raise"           -> None   \* except Exception
      [] reply.kind = "empty"           -> None   \* no choices / empty content
      [] reply.kind = "not_json"        -> None   \* except json.JSONDecodeError
      [] reply.kind = "json_not_object" -> None   \* result.get raises, except Exception
      [] OTHER ->
            LET scene_value == IF reply.kind = "json_no_scene" THEN "none"
                               ELSE reply.scene
            IN  IF /\ reply.kind = "json_no_scene" \/ reply.scene_is_str
                   /\ scene_value # "none"
                   /\ scene_value \in Themes
                   /\ scene_value # current_theme
                THEN scene_value
                ELSE None

\* a detect_scene_change without the keyword pre-filter (a variant used to
\* test the claims)
detect_scene_change_unfiltered(history, client, current_theme, reply) ==
    IF history = <<>> \/ ~client
    THEN [result |-> None, calls |-> 0, prefilter |-> "not_run"]
    ELSE [result |-> _detect_scene_with_groq(reply, current_theme),
          calls |-> 1, prefilter |-> "hit"]

\* detect_scene_change: the result, the number of provider calls made and
\* what the keyword pre-filter said
detect_scene_change(history, client, current_theme, reply) ==
    IF history = <<>>
    THEN [result |-> None, calls |-> 0, prefilter |-> "not_run"]
    ELSE IF ~client
    THEN [result |-> None, calls |-> 0, prefilter |-> "not_run"]
    ELSE LET recent_history == IF Len(history) > RecentTurns
                               THEN TakeLast(history, RecentTurns) ELSE history
             history_text   == HistoryText(recent_history)
         IN  IF ~_has_location_keywords(history_text)
             THEN [result |-> None, calls |-> 0, prefilter |-> "miss"]
             ELSE [result |-> _detect_scene_with_groq(reply, current_theme),
                   calls |-> 1, prefilter |-> "hit"]

(***************************************************************************)
(* The ChatInterface text functions applied to bounded inputs.             *)
(***************************************************************************)
HiddenAlphabet   == {"a", " ", "LF", "]", HiddenOpen}
SanitizeAlphabet == {"a", " ", "LF", "<", ">", "&"}
ValidateAlphabet == {"a", " ", "LF", "VT", "SOH"}

\* detect(create(v, h))
CiRoundTrip ==
    /\ ci_op = "none"
    /\ ci_op' = "roundtrip"
    /\ ci_prev' = create_hidden_content_message(ci_v, ci_h)
    /\ ci_res' = _detect_hidden_content(create_hidden_content_message(ci_v, ci_h))
    /\ UNCHANGED <<ci_v, ci_h, mmvars, scvars, ssvars, sxvars, xvars>>

\* detect(v) on a raw message content
CiDetect ==
    /\ ci_op = "none"
    /\ ci_op' = "detect"
    /\ ci_prev' = ci_v
    /\ ci_res' = _detect_hidden_content(ci_v)
    /\ UNCHANGED <<ci_v, ci_h, mmvars, scvars, ssvars, sxvars, xvars>>

CiSanitize ==
    /\ ci_op = "none"
    /\ ci_op' = "sanitize"
    /\ ci_prev' = ci_v
    /\ ci_res' = sanitize_message(ci_v)
    /\ UNCHANGED <<ci_v, ci_h, mmvars, scvars, ssvars, sxvars, xvars>>

\* the output of sanitize_message sanitized once more
CiSanitizeAgain ==
    /\ ci_op = "sanitize"
    /\ ci_op' = "sanitize_again"
    /\ ci_prev' = ci_res
    /\ ci_res' = sanitize_message(ci_res)
    /\ UNCHANGED <<ci_v, ci_h, mmvars, scvars, ssvars, sxvars, xvars>>

CiValidate ==
    /\ ci_op = "none"
    /\ ci_op' = "validate"
    /\ ci_prev' = ci_v
    /\ ci_res' = validate_input(ci_v, MaxInputLen)
    /\ UNCHANGED <<ci_v, ci_h, mmvars, scvars, ssvars, sxvars, xvars>>

vars == <<civars, mmvars, scvars, ssvars, sxvars, xvars>>

InitHidden ==
    /\ ci_v \in TextsUpTo(HiddenAlphabet, MaxVisLen)
    /\ ci_h \in TextsUpTo(HiddenAlphabet, MaxHidLen)
    /\ ci_op = "none" /\ ci_prev = <<>> /\ ci_res = <<>>
    /\ MmIdle /\ ScIdle /\ SsIdle /\ SxIdle /\ XIdle

NextHidden == (CiRoundTrip \/ CiDetect)

SpecHidden == InitHidden /\ [][NextHidden]_vars

InitSanitize ==
    /\ ci_v \in TextsUpTo(SanitizeAlphabet, MaxVisLen)
    /\ ci_h = <<>>
    /\ ci_op = "none" /\ ci_prev = <<>> /\ ci_res = <<>>
    /\ MmIdle /\ ScIdle /\ SsIdle /\ SxIdle /\ XIdle

NextSanitize == (CiSanitize \/ CiSanitizeAgain)

SpecSanitize == InitSanitize /\ [][NextSanitize]_vars

InitValidate ==
    /\ ci_v \in TextsUpTo(ValidateAlphabet, MaxInputLen + 1)
    /\ ci_h = <<>>
    /\ ci_op = "none" /\ ci_prev = <<>> /\ ci_res = <<>>
    /\ MmIdle /\ ScIdle /\ SsIdle /\ SxIdle /\ XIdle

NextValidate == CiValidate

SpecValidate == InitValidate /\ [][NextValidate]_vars

(***************************************************************************)
(* MemoryManager driven by message streams.                                *)
(***************************************************************************)
MaxStreamTurns == 12    \* longest message stream, in exchanges

\* a stream of n exchanges whose words start at base
Stream(n, base) ==
    [i \in 1..(2 * n) |->
        IF i % 2 = 1
        THEN [role |-> "user", content |-> <<Word(base + i)>>]
        ELSE [role |-> "assistant", content |-> <<Word(base + i), Word(base + 1)>>]]

SampleStreams ==
    {Stream(n, base) : n \in {history_threshold - 1, history_threshold, MaxStreamTurns},
                       base \in {0, 13}}

MmCompress ==
    \E messages \in SampleStreams :
        \E out \in compress_history(messages, mm_cache) :
            /\ mm_cache' = out.cache
            /\ mm_ret' = <<Len(messages), Len(out.messages)>>
            /\ UNCHANGED <<civars, scvars, ssvars, sxvars, xvars>>

MmClear ==
    /\ mm_cache' = <<>>
    /\ mm_ret' = <<>>
    /\ UNCHANGED <<civars, scvars, ssvars, sxvars, xvars>>

InitMemory == CiIdle /\ MmIdle /\ ScIdle /\ SsIdle /\ SxIdle /\ XIdle

NextMemory == (MmCompress \/ MmClear)

SpecMemory == InitMemory /\ [][NextMemory]_vars

\* C8: after any sequence of compress_history and clear_memory calls the
\* keyword cache holds at most 20 entries and no entry twice.
C8_CacheBounded ==
    /\ Len(mm_cache) <= MaxCachedKeywords
    /\ \A i, j \in 1..Len(mm_cache) : mm_cache[i] = mm_cache[j] => i = j

C8_Witness ==
    /\ Len(mm_cache) = MaxCachedKeywords
    /\ mm_ret = <<2 * MaxStreamTurns, keep_recent>>

(***************************************************************************)
(* SceneManager.detect_scene_change applied to bounded histories.          *)
(***************************************************************************)
MaxHistory == 6     \* longest history handed to detect_scene_change

SampleTurns ==
    {<<<<"hello">>, <<"what">>>>,
     <<<<"the", "beach">>, <<"what">>>>,
     <<<<"hello">>, <<"coffee", "then">>>>}

ScDetect ==
    /\ sc_out = <<>>
    /\ \E reply \in ProviderReplies :
          LET out == detect_scene_change(sc_history, sc_client, sc_theme, reply)
          IN  /\ sc_out' = out
              /\ sc_reply' = IF out.calls = 0 THEN <<>> ELSE reply
    /\ UNCHANGED <<sc_history, sc_theme, sc_client, civars, mmvars, ssvars, sxvars, xvars>>

InitScene ==
    /\ CiIdle /\ MmIdle /\ SsIdle /\ SxIdle /\ XIdle
    /\ sc_history \in UNION {[1..k -> SampleTurns] : k \in 0..MaxHistory}
    /\ sc_theme \in Themes
    /\ sc_client \in BOOLEAN
    /\ sc_reply = <<>> /\ sc_out = <<>>

NextScene == ScDetect

SpecScene == InitScene /\ [][NextScene]_vars

TurnHasWord(turn, w) ==
    \/ \E i \in 1..Len(turn[1]) : turn[1][i] = w
    \/ \E i \in 1..Len(turn[2]) : turn[2][i] = w

\* the turns detect_scene_change looks at: the last five
RecentOf(history) ==
    {i \in 1..Len(history) : i > Len(history) - 5}

KeywordInRecent ==
    \E i \in RecentOf(sc_history) :
        \E w \in {"beach", "coffee"} : TurnHasWord(sc_history[i], w)

\* C9 (as claimed): at most one provider call per invocation, only for a
\* non-empty history with a configured client and a keyword in the last five
\* turns; no keyword, no call and result none; and a history containing the
\* word for beach is never turned away by the pre-filter.
C9_PreFilter ==
    (sc_out # <<>>) =>
        /\ sc_out.calls <= 1
        /\ sc_out.calls = 1 => (sc_history # <<>> /\ sc_client /\ KeywordInRecent)
        /\ ~KeywordInRecent => (sc_out.result = None /\ sc_out.calls = 0)
        /\ (\E i \in 1..Len(sc_history) : TurnHasWord(sc_history[i], "beach"))
               => sc_out.prefilter # "miss"

\* C9 (amended): the same, for a history whose last five turns contain the
\* word for beach; with a client configured such a history reaches the
\* provider.
C9_PreFilterRecent ==
    (sc_out # <<>>) =>
        /\ sc_out.calls <= 1
        /\ sc_out.calls = 1 => (sc_history # <<>> /\ sc_client /\ KeywordInRecent)
        /\ ~KeywordInRecent => (sc_out.result = None /\ sc_out.calls = 0)
        /\ (\E i \in RecentOf(sc_history) : TurnHasWord(sc_history[i], "beach"))
               => /\ sc_out.prefilter # "miss"
                  /\ sc_client => sc_out.calls = 1

C9_Witness ==
    /\ sc_out # <<>>
    /\ Len(sc_history) = MaxHistory
    /\ TurnHasWord(sc_history[2], "beach")
    /\ \A i \in 1..Len(sc_history) : i # 2 => ~TurnHasWord(sc_history[i], "coffee")
    /\ sc_out.calls = 1

\* C10: _detect_scene_with_groq returns a scene only if the reply's scene is
\* one of the 7 catalog keys and differs from the current theme; every other
\* reply (outside the catalog, "none", the current theme, empty, not JSON, a
\* provider exception) yields none, and the call never raises.
C10_SceneAcceptance ==
    (sc_out # <<>> /\ sc_out.calls = 1) =>
        LET acceptable == /\ sc_reply.kind = "json"
                          /\ sc_reply.scene_is_str
                          /\ sc_reply.scene \in Themes
                          /\ sc_reply.scene # sc_theme
        IN  /\ sc_out.result \in Themes \cup {None}
            /\ sc_out.result # None => (acceptable /\ sc_out.result = sc_reply.scene)
            /\ ~acceptable => sc_out.result = None

C10_Witness ==
    /\ sc_out # <<>> /\ sc_out.calls = 1
    /\ sc_reply.kind = "json" /\ sc_reply.scene = sc_theme
    /\ sc_theme = "beach_sunset"
    /\ sc_out.result = None

(***************************************************************************)
(* The chat turn of main_app and of streamlit_app.  The fixed lines of the *)
(* program are one-token texts.  RateLimiter, SentimentAnalyzer and the    *)
(* session validation are not part of the sources at hand; they follow the *)
(* contracts of sections 4.5, 4.6 and 4.9 of the specification.            *)
(***************************************************************************)
InitialMessage   == <<"what_do_you_want">>   \* "何の用？遊びに来たの？"
DemoLine         == <<"demo_line">>          \* "は？何それ。あたしに話しかけてるの？"
LlmNoWordsLine   == <<"no_words_line">>      \* "…言葉が出てこない。"
LlmErrorLine     == <<"llm_error_line">>     \* "…システムの調子が悪いみたい。"
SlowDownLine     == <<"slow_down_line">>     \* "（…少し話すのが速すぎる。…）"
SessionErrorLine == <<"reload_line">>        \* "（申し訳ありません。…再読み込みしてください。）"
MainErrorLine    == <<"system_unwell_line">> \* "（ごめん、システムの調子が悪いみたいだ。）"
StErrorLine      == <<"system_problem_line">> \* "（ごめん、システムに問題が起きたみたいだ。）"
LostForWords     == <<"lost_for_words">>     \* "…なんて言えばいいか分からない。"
HiddenFallback   == <<HiddenOpen, "true_feelings", "]">>  \* "[HIDDEN:（本当の気持ちは...）]"
HiddenNoWords    == <<HiddenOpen, "no_words", "]">>       \* "[HIDDEN:（言葉が出てこない...）]"

Absent == <<"absent">>

InitialAffection == 30
MainMaxTurns     == 5
MainDialogueArgs == 8   \* arguments main_app hands to generate_dialogue
StDialogueArgs   == 7   \* arguments streamlit_app hands to generate_dialogue
GenerateDialogueParams   == 7   \* parameters of generate_dialogue besides self
GenerateDialogueRequired == 5   \* of which without a default
MAX_HISTORY_TURNS == 50

\* bounds of the chat-turn model
MaxMessages == 7    \* the message list grows to at most this many entries

\* RateLimiter (section 4.6): a sliding window over the recorded timestamps
LimiterWindow      == 2
LimiterMaxRequests == 2

\* the clock runs from 0 until a window has passed
MaxTime == LimiterWindow

create_limiter_state == [timestamps |-> <<>>, is_blocked |-> FALSE]

check_limiter(state, t) ==
    LET recent == SelectSeq(state.timestamps, LAMBDA x : t - x < LimiterWindow)
    IN  IF Len(recent) >= LimiterMaxRequests
        THEN [allowed |-> FALSE,
              state |-> [timestamps |-> recent, is_blocked |-> TRUE]]
        ELSE [allowed |-> TRUE,
              state |-> [timestamps |-> Append(recent, t), is_blocked |-> FALSE]]

\* SentimentAnalyzer (section 4.5): a pure score clamped into 0..100
AffectionStep == 10

HasToken(text, w) == \E i \in 1..Len(text) : text[i] = w

update_affection(message, affection) ==
    LET raw     == IF HasToken(message, "thank") THEN affection + AffectionStep
                   ELSE IF HasToken(message, "hate") THEN affection - AffectionStep
                   ELSE affection
        clamped == IF raw > 100 THEN 100 ELSE IF raw < 0 THEN 0 ELSE raw
    IN  [affection |-> clamped, change_amount |-> clamped - affection]

\* check_affection_milestone: the milestone crossed, 0 for none
check_affection_milestone(old_affection, new_affection) ==
    LET crossed == {m \in Milestones :
                       old_affection < m /\ m <= new_affection}
    IN  IF crossed = {} THEN 0
        ELSE CHOOSE m \in crossed : \A x \in crossed : m <= x

\* the notifications process_chat_message queues for one affection update
AffectionNotifications(old_affection, aff) ==
    IF aff.change_amount = 0 THEN <<>>
    ELSE <<[change_amount |-> aff.change_amount,
            new_affection |-> aff.affection, milestone |-> 0]>>
         \o (LET m == check_affection_milestone(old_affection, aff.affection)
             IN  IF m = 0 THEN <<>>
                 ELSE <<[change_amount |-> 0,
                         new_affection |-> aff.affection, milestone |-> m]>>)

\* DialogueGenerator.call_llm with is_json_output = False: the text returned
\* and the number of provider calls made
GeminiOutcomes == {"raise", "empty", "plain", "hidden"}

LlmOutcomes == GeminiOutcomes \cup {"text_raises"}

TypeMismatchLine == <<"strange_line">>       \* "…なんか変なこと言ってない？"
JsonSentinel     == <<"json_scene_none">>    \* '{"scene": "none"}'

\* the text the provider hands back for an outcome that carries one
ProviderText(outcome) ==
    IF outcome = "hidden" THEN <<HiddenOpen, "x", "]", "fine">> ELSE <<"fine">>

\* a call_llm whose provider call sits outside the try block (a variant used
\* to test the claims)
call_llm_unguarded(model, prompts_are_str, is_json_output, outcome) ==
    LET canned(line) == [raised |-> FALSE,
                         text |-> IF is_json_output THEN JsonSentinel ELSE line,
                         calls |-> 1]
    IN  IF ~model
        THEN [raised |-> FALSE,
              text |-> IF is_json_output THEN JsonSentinel ELSE DemoLine,
              calls |-> 0]
        ELSE IF ~prompts_are_str
        THEN [raised |-> FALSE,
              text |-> IF is_json_output THEN JsonSentinel ELSE TypeMismatchLine,
              calls |-> 0]
        ELSE CASE outcome = "raise"       -> [raised |-> TRUE, text |-> <<>>, calls |-> 1]
               [] outcome = "text_raises" -> canned(LlmErrorLine)
               [] outcome = "empty"       -> canned(LlmNoWordsLine)
               [] OTHER -> [raised |-> FALSE, text |-> ProviderText(outcome), calls |-> 1]

\* DialogueGenerator.call_llm: whether it raised, the text returned and the
\* number of provider calls made
call_llm(model, prompts_are_str, is_json_output, outcome) ==
    LET canned(line) == [raised |-> FALSE,
                         text |-> IF is_json_output THEN JsonSentinel ELSE line,
                         calls |-> 1]
    IN  IF ~model
        THEN [raised |-> FALSE,
              text |-> IF is_json_output THEN JsonSentinel ELSE DemoLine,
              calls |-> 0]
        ELSE IF ~prompts_are_str
        THEN [raised |-> FALSE,
              text |-> IF is_json_output THEN JsonSentinel ELSE TypeMismatchLine,
              calls |-> 0]
        ELSE CASE outcome = "raise"       -> canned(LlmErrorLine)   \* except Exception
               [] outcome = "text_raises" -> canned(LlmErrorLine)   \* except Exception
               [] outcome = "empty"       -> canned(LlmNoWordsLine)
               [] OTHER -> [raised |-> FALSE, text |-> ProviderText(outcome), calls |-> 1]

\* DialogueGenerator.generate_dialogue called with nargs positional arguments
generate_dialogue(nargs, model, outcome) ==
    IF nargs > GenerateDialogueParams \/ nargs < GenerateDialogueRequired
    THEN [raised |-> TRUE, text |-> <<>>, calls |-> 0]     \* TypeError
    ELSE LET r == call_llm(model, TRUE, FALSE, outcome)
         IN  [raised |-> r.raised, text |-> r.text, calls |-> r.calls]

\* ChatInterface.add_message
add_message(role, content, messages) ==
    Append(messages, [role |-> role, content |-> sanitize_message(content),
                      is_initial |-> FALSE])

NonInitial(messages) == SelectSeq(messages, LAMBDA m : ~m.is_initial)

ContentsOf(messages, role) ==
    LET sel == SelectSeq(messages, LAMBDA m : m.role = role)
    IN  [i \in 1..Len(sel) |-> sel[i].content]

Min(a, b) == IF a < b THEN a ELSE b

\* the history process_chat_message of main_app builds
MainHistory(messages) ==
    LET user_msgs      == ContentsOf(NonInitial(messages), "user")
        assistant_msgs == ContentsOf(NonInitial(messages), "assistant")
        max_turns      == Min(MainMaxTurns, Min(Len(user_msgs), Len(assistant_msgs)))
    IN  [i \in 1..max_turns |-> <<user_msgs[i], assistant_msgs[i]>>]

\* the history process_message of streamlit_app builds
StHistory(messages) ==
    LET pairs == [k \in 1..(Len(messages) \div 2) |->
                     <<messages[2 * k - 1].content, messages[2 * k].content>>]
    IN  IF Len(pairs) > MAX_HISTORY_TURNS
        THEN TakeLast(pairs, MAX_HISTORY_TURNS) ELSE pairs

\* what a handler that did nothing leaves in obs
BlankObs ==
    [op |-> "none", input |-> <<>>, accepted |-> FALSE, processed |-> FALSE,
     session_ok |-> TRUE, reached_limiter |-> FALSE, allowed |-> FALSE,
     response |-> <<>>, raised |-> FALSE,
     dialogue_calls |-> 0, llm_calls |-> 0, scene_calls |-> 0,
     exempt |-> FALSE, form_reached |-> FALSE, submit_calls |-> 0,
     tutorial_letters |-> 0, new_session_id |-> "", was_dirty |-> FALSE,
     was_armed |-> FALSE, full_reset_calls |-> 0, keys_cleared |-> FALSE,
     outcome |-> "none", steps |-> <<>>, history |-> <<>>, scene_reply |-> <<>>]

\* the provider replies the chat-turn model feeds the scene detection
FlowSceneReplies ==
    {r \in ProviderReplies :
        \/ r.kind = "raise"
        \/ r.kind = "json" /\ r.scene \in {"none", "beach_sunset"}}

\* the replies worth drawing: one stand-in where no client would ask for one
SceneRepliesFor(e) ==
    IF e.groq THEN FlowSceneReplies
    ELSE {CHOOSE r \in FlowSceneReplies : r.kind = "raise"}

GeminiOutcomesFor(e) == IF e.gemini THEN GeminiOutcomes ELSE {"raise"}

\* a denied turn that scores the message all the same (a variant used to
\* test the claims)
DeniedAffectionScored(message, affection) == update_affection(message, affection).affection

\* the affection after a turn the limiter denied: the return statement comes
\* before update_affection
DeniedAffection(message, affection) == affection

\* a turn that looks for a scene change first (a variant used to test the claims)
MainTurnStepsSceneFirst == <<"scene", "limit", "affection", "memory", "dialogue">>

\* the steps of process_chat_message in the order of its statements: the
\* limiter check, update_affection, detect_scene_change, compress_history
\* and generate_dialogue
MainTurnSteps == <<"limit", "affection", "scene", "memory", "dialogue">>

\* the steps of process_message of streamlit_app, which compresses nothing
StTurnSteps == <<"limit", "affection", "scene", "dialogue">>

\* a turn that stores the list compress_history returned (a variant used to
\* test the claims)
MessagesAfterTurnStored(messages, compressed_messages) == compressed_messages

\* st.session_state.chat['messages'] when process_chat_message returns: the
\* name compressed_messages is assigned and never read
MessagesAfterTurn(messages, compressed_messages) == messages

\* process_chat_message of main_app: the possible outcomes of one call
process_chat_message(message, messages, affection, theme, limiter, cache, t, e, session_ok, reply, outcome) ==
    LET unchanged == [response |-> <<>>, affection |-> affection, theme |-> theme,
                      limiter |-> limiter, cache |-> cache, notifications |-> <<>>,
                      reached_limiter |-> FALSE, allowed |-> FALSE, raised |-> FALSE,
                      dialogue_calls |-> 0, llm_calls |-> 0, scene_calls |-> 0,
                      steps |-> <<>>, history |-> <<>>,
                      compressed_messages |-> messages]
    IN  IF ~session_ok
        THEN {[unchanged EXCEPT !.response = SessionErrorLine]}
        ELSE
        LET lim == check_limiter(limiter, t)
        IN  IF ~lim.allowed
            THEN {[unchanged EXCEPT !.response = SlowDownLine,
                                    !.affection = DeniedAffection(message, affection),
                                    !.limiter = lim.state,
                                    !.reached_limiter = TRUE,
                                    !.steps = <<"limit">>]}
            ELSE
            LET history   == MainHistory(messages)
                aff       == update_affection(message, affection)
                scene     == detect_scene_change(history, e.groq, theme, reply)
                new_theme == scene.result
                gen       == generate_dialogue(MainDialogueArgs, e.gemini, outcome)
                response  ==
                    IF gen.raised THEN MainErrorLine          \* except Exception
                    ELSE IF gen.text = <<>> THEN HiddenNoWords \o LostForWords
                    ELSE IF HasToken(gen.text, HiddenOpen) THEN gen.text
                    ELSE HiddenFallback \o gen.text
            IN  {[response |-> response,
                  affection |-> aff.affection,
                  theme |-> IF new_theme # None THEN new_theme ELSE theme,
                  limiter |-> lim.state,
                  cache |-> mem.cache,
                  notifications |-> AffectionNotifications(affection, aff),
                  reached_limiter |-> TRUE, allowed |-> TRUE,
                  raised |-> gen.raised,
                  dialogue_calls |-> 1,
                  llm_calls |-> gen.calls,
                  scene_calls |-> scene.calls,
                  steps |-> MainTurnSteps,
                  history |-> history,
                  compressed_messages |-> mem.messages] :
                    mem \in compress_history(NonInitial(messages), cache)}

\* process_message of streamlit_app: the outcome of one call
process_message(message, messages, affection, theme, limiter, t, e, reply, outcome) ==
    LET lim == check_limiter(limiter, t)
    IN  IF ~lim.allowed
        THEN [response |-> SlowDownLine, affection |-> affection, theme |-> theme,
              limiter |-> lim.state, reached_limiter |-> TRUE, allowed |-> FALSE,
              raised |-> FALSE,
              dialogue_calls |-> 0, llm_calls |-> 0, scene_calls |-> 0,
              steps |-> <<"limit">>, history |-> <<>>]
        ELSE
        LET history   == StHistory(messages)
            aff       == update_affection(message, affection)
            scene     == detect_scene_change(history, e.groq, theme, reply)
            new_scene == scene.result
            gen       == generate_dialogue(StDialogueArgs, e.gemini, outcome)
        IN  [response |-> IF gen.raised THEN StErrorLine
                          ELSE IF gen.text = <<>> THEN LostForWords
                          ELSE gen.text,
             affection |-> aff.affection,
             theme |-> IF new_scene # None /\ new_scene # theme
                       THEN new_scene ELSE theme,
             limiter |-> lim.state,
             reached_limiter |-> TRUE, allowed |-> TRUE,
             raised |-> gen.raised,
             dialogue_calls |-> 1,
             llm_calls |-> gen.calls,
             scene_calls |-> scene.calls,
             steps |-> StTurnSteps,
             history |-> history]

\* the send condition without the strip (a variant used to test the claims)
MainSendConditionNoStrip(send_button, user_input) ==
    send_button /\ user_input # <<>>

\* the condition under which main_app handles a click on the send button
MainSendCondition(send_button, user_input) ==
    send_button /\ user_input # <<>> /\ Strip(user_input) # <<>>

\* ChatInterface.render_input_area: the text handed on, <<>> for None
render_input_area(limiter, typed, max_input_length) ==
    IF limiter.is_blocked THEN <<>>
    ELSE IF typed = <<>> THEN <<>>
    ELSE IF ~validate_input(typed, max_input_length)[1] THEN <<>>
    ELSE typed

\* what the user types into the input field
LongInput == [i \in 1..(MaxInputLen + 1) |-> "a"]

UserInputs ==
    {<<>>, <<" ">>, <<"the", "beach">>, <<"thank", "you">>, LongInput}

SeededMessages(a) ==
    IF a = "main_app"
    THEN <<[role |-> "assistant", content |-> InitialMessage, is_initial |-> TRUE]>>
    ELSE <<>>

\* the milestone notifications for m in a list of notifications
MilestoneCount(notifications, m) ==
    Cardinality({i \in 1..Len(notifications) : notifications[i].milestone = m})

\* a handler without the duplicate test (a variant used to test the claims)
IsDuplicateSendNever(last_sent_message, user_input) == FALSE

\* st.session_state.get("last_sent_message") == user_input
IsDuplicateSend(last_sent_message, user_input) == last_sent_message = user_input

\* one run of the chat tab of main_app with the text user_input in the input
\* field, the send button clicked or not
MainRunOn(inputs, lengths, replies) ==
    /\ app = "main_app"
    /\ \E send_button \in BOOLEAN, user_input \in inputs :
          LET seen == [BlankObs EXCEPT !.op = IF send_button THEN "send" ELSE "run",
                                       !.input = IF send_button THEN user_input
                                                 ELSE <<>>]
          IN
          IF ~MainSendCondition(send_button, user_input)
          THEN /\ obs' = seen
               /\ ss_notifications' = <<>>
               /\ UNCHANGED <<ss_messages, ss_affection, ss_theme, ss_limiter,
                              ss_last_sent, mm_cache>>
          ELSE IF IsDuplicateSend(ss_last_sent, user_input)
          THEN /\ obs' = [seen EXCEPT !.accepted = TRUE]
               /\ ss_notifications' = <<>>
               /\ UNCHANGED <<ss_messages, ss_affection, ss_theme, ss_limiter,
                              ss_last_sent, mm_cache>>
          ELSE IF Len(user_input) > MaxInputLen
          THEN /\ obs' = [seen EXCEPT !.accepted = TRUE]
               /\ ss_last_sent' = user_input
               /\ ss_notifications' = <<>>
               /\ UNCHANGED <<ss_messages, ss_affection, ss_theme, ss_limiter,
                              mm_cache>>
          ELSE /\ Len(ss_messages) \in lengths
               /\ \E session_ok \in BOOLEAN, reply \in replies,
                     outcome \in GeminiOutcomesFor(env) :
                   \E r \in process_chat_message(user_input, ss_messages,
                                ss_affection, ss_theme, ss_limiter, mm_cache,
                                now, env, session_ok, reply, outcome) :
                       /\ ss_last_sent' = user_input
                       /\ ss_messages' =
                              add_message("assistant", r.response,
                                  add_message("user", user_input,
                                      MessagesAfterTurn(ss_messages,
                                                        r.compressed_messages)))
                       /\ ss_affection' = r.affection
                       /\ ss_theme' = r.theme
                       /\ ss_limiter' = r.limiter
                       /\ mm_cache' = r.cache
                       /\ ss_notifications' = r.notifications
                       /\ obs' = [seen EXCEPT
                                     !.accepted = TRUE, !.processed = TRUE,
                                     !.session_ok = session_ok,
                                     !.reached_limiter = r.reached_limiter,
                                     !.allowed = r.allowed,
                                     !.response = r.response,
                                     !.raised = r.raised,
                                     !.dialogue_calls = r.dialogue_calls,
                                     !.llm_calls = r.llm_calls,
                                     !.scene_calls = r.scene_calls,
                                     !.steps = r.steps,
                                     !.history = r.history,
                                     !.scene_reply = IF r.scene_calls > 0
                                                     THEN <<reply>> ELSE <<>>]
    /\ ms_queued' = [m \in Milestones |-> ms_queued[m] + MilestoneCount(ss_notifications', m)]
    /\ UNCHANGED <<app, env, now, mm_ret, civars, scvars, xvars>>
    /\ ss_memory_notifications' = <<>>
    /\ UNCHANGED <<ss_ura_mode, ss_user_id, ss_show_all_hidden, ss_flip_states,
                   ss_full_reset_confirm>>

MainRunCapped(inputs, lengths) == MainRunOn(inputs, lengths, SceneRepliesFor(env))

\* the lengths of the message list at which the model lets a turn start
ShortLengths == 0..(MaxMessages - 2)

MainRunWith(inputs) == MainRunCapped(inputs, ShortLengths)

MainRun == MainRunWith(UserInputs)

\* the messages of a user whose mood swings
MoodInputs == {<<"thank", "you">>, <<"hate", "you">>}

MainRunMoody == MainRunWith(MoodInputs)

\* SessionApiClient.reset_session (section 4.10): the fresh ids it can issue
SessionIds == {"sid_a", "sid_b"}

reset_session(current_id) == SessionIds \ {current_id}

\* a reset that leaves ura_mode alone (a variant used to test the claims)
ResetUraModeKept(ura_mode) == ura_mode

\* the value the reset button gives chat['ura_mode']
ResetUraMode(ura_mode) == FALSE

\* the reset button of main_app
MainReset ==
    /\ app = "main_app"
    /\ ss_messages' = SeededMessages("main_app")
    /\ ss_affection' = InitialAffection
    /\ ss_theme' = "default"
    /\ ss_limiter' = create_limiter_state
    /\ ss_ura_mode' = ResetUraMode(ss_ura_mode)
    /\ mm_cache' = <<>>
    /\ ss_last_sent' = Absent
    /\ ss_notifications' = <<>>
    /\ ss_flip_states' = <<>>
    /\ ms_queued' = NoMilestones
    /\ ss_memory_notifications' = <<>>
    /\ UNCHANGED <<ss_show_all_hidden, ss_full_reset_confirm>>
    /\ \E new_session_id \in reset_session(ss_user_id) :
          /\ ss_user_id' = new_session_id
          /\ obs' = [BlankObs EXCEPT
                        !.op = "reset",
                        !.new_session_id = new_session_id,
                        !.was_dirty = /\ Len(ss_messages) > 1
                                      /\ ss_affection # InitialAffection
                                      /\ ss_theme # "default"
                                      /\ ss_limiter.is_blocked
                                      /\ ss_ura_mode]
    /\ UNCHANGED <<app, env, now, mm_ret, civars, scvars, xvars>>

\* the safety button of the sidebar of main_app
UraToggle ==
    /\ app = "main_app"
    /\ ss_ura_mode' = ~ss_ura_mode
    /\ ss_notifications' = <<>>
    /\ ss_memory_notifications' = <<>>
    /\ obs' = [BlankObs EXCEPT !.op = "ura"]
    /\ UNCHANGED <<app, env, now, ss_messages, ss_affection, ss_theme, ss_limiter,
                   ss_last_sent, ss_user_id, ss_show_all_hidden, ss_flip_states,
                   ms_queued, ss_full_reset_confirm, mmvars, civars, scvars, xvars>>

\* one run of main() of streamlit_app with the text typed into the chat input
StRunOn(inputs, lengths, replies) ==
    /\ app = "streamlit_app"
    /\ \E typed \in inputs :
       \E mem \in compress_history(ss_messages, mm_cache) :
          LET user_input == render_input_area(ss_limiter, typed, MaxInputLen)
              early == IF should_compress_history(ss_messages)
                       THEN <<"memory">> ELSE <<>>
              seen == [BlankObs EXCEPT !.op = IF typed # <<>> THEN "send" ELSE "run",
                                       !.input = typed, !.steps = early]
          IN
          IF user_input = <<>>
          THEN /\ obs' = seen
               /\ ss_messages' = mem.messages
               /\ mm_cache' = mem.cache
               /\ UNCHANGED <<ss_affection, ss_theme, ss_limiter>>
          ELSE /\ Len(mem.messages) \in lengths
               /\ \E reply \in replies, outcome \in GeminiOutcomesFor(env) :
                    LET with_user == add_message("user", user_input, mem.messages)
                        r == process_message(user_input, with_user, ss_affection,
                                 ss_theme, ss_limiter, now, env, reply, outcome)
                    IN  /\ ss_messages' = add_message("assistant", r.response, with_user)
                        /\ mm_cache' = mem.cache
                        /\ ss_affection' = r.affection
                        /\ ss_theme' = r.theme
                        /\ ss_limiter' = r.limiter
                        /\ obs' = [seen EXCEPT
                                      !.accepted = TRUE, !.processed = TRUE,
                                      !.reached_limiter = r.reached_limiter,
                                      !.allowed = r.allowed,
                                      !.response = r.response,
                                      !.raised = r.raised,
                                      !.dialogue_calls = r.dialogue_calls,
                                      !.llm_calls = r.llm_calls,
                                      !.scene_calls = r.scene_calls,
                                      !.steps = early \o r.steps,
                                      !.history = r.history,
                                      !.scene_reply = IF r.scene_calls > 0
                                                      THEN <<reply>> ELSE <<>>]
    /\ UNCHANGED <<app, env, now, ss_last_sent, ss_notifications, mm_ret,
                   civars, scvars, sxvars, xvars>>

StRunCapped(inputs, lengths) == StRunOn(inputs, lengths, SceneRepliesFor(env))

StRunWith(inputs) == StRunCapped(inputs, ShortLengths)

StRun == StRunWith(UserInputs)

\* the reset button of streamlit_app
StReset ==
    /\ app = "streamlit_app"
    /\ ss_messages' = <<>>
    /\ ss_affection' = InitialAffection
    /\ ss_theme' = "default"
    /\ ss_limiter' = create_limiter_state
    /\ mm_cache' = <<>>
    /\ obs' = [BlankObs EXCEPT !.op = "reset"]
    /\ UNCHANGED <<app, env, now, ss_last_sent, ss_notifications, mm_ret,
                   civars, scvars, sxvars, xvars>>

\* time passes
Tick ==
    /\ now < MaxTime
    /\ now' = now + 1
    /\ obs' = [BlankObs EXCEPT !.op = "tick"]
    /\ UNCHANGED <<app, env, ss_messages, ss_affection, ss_theme, ss_limiter,
                   ss_last_sent, ss_notifications, mmvars, civars, scvars, sxvars, xvars>>

InitChat ==
    /\ CiIdle /\ MmIdle /\ ScIdle /\ SxIdle /\ XIdle
    /\ app \in {"main_app", "streamlit_app"}
    /\ env \in [gemini : BOOLEAN, groq : BOOLEAN]
    /\ now = 0
    /\ ss_messages = SeededMessages(app)
    /\ ss_affection = InitialAffection
    /\ ss_theme = "default"
    /\ ss_limiter = create_limiter_state
    /\ ss_last_sent = Absent
    /\ ss_notifications = <<>>
    /\ obs = BlankObs

NextChat == (MainRun \/ MainReset \/ StRun \/ StReset \/ Tick)

\* ---------------------------------------------------------------------------
\* The scene of a session under every reply the scene-detection provider can
\* give, with the scene selectbox the sidebar of streamlit_app shows in
\* debug mode.

\* every provider reply, one stand-in where no client would ask for one
AnySceneRepliesFor(e) ==
    IF e.groq THEN ProviderReplies
    ELSE {CHOOSE r \in ProviderReplies : r.kind = "raise"}

ThemeInputs == {<<"the", "beach">>, <<"thank", "you">>}

MainRunTheme == MainRunOn(ThemeInputs, ShortLengths, AnySceneRepliesFor(env))

StRunTheme == StRunOn(ThemeInputs, ShortLengths, AnySceneRepliesFor(env))

\* BackgroundManager.get_available_themes: the keys of theme_descriptions
available_themes == Themes

\* the selectbox: a theme other than the current one is stored
StSceneSelect ==
    /\ app = "streamlit_app"
    /\ \E selected_theme \in available_themes :
          /\ selected_theme # ss_theme
          /\ ss_theme' = selected_theme
    /\ obs' = [BlankObs EXCEPT !.op = "scene_select"]
    /\ UNCHANGED <<app, env, now, ss_messages, ss_affection, ss_limiter,
                   ss_last_sent, ss_notifications, mmvars, civars, scvars, sxvars, xvars>>

NextTheme == (MainRunTheme \/ StRunTheme \/ MainReset \/ StReset \/ StSceneSelect)

SpecTheme == InitChat /\ [][NextTheme]_vars

SpecChat == InitChat /\ [][NextChat]_vars

(***************************************************************************)
(* The letter tab of main_app.  TutorialManager and RequestManager are not *)
(* part of the sources at hand: whether tutorial step 4 is active and      *)
(* whether a request is already stored are inputs of a run of the tab.     *)
(***************************************************************************)
required_affection == 40

\* the gate without the negation of the exemption (a variant used to test
\* the claims)
LetterGateClosedWhenExempt(current_affection, is_tutorial_step4) ==
    current_affection < required_affection /\ is_tutorial_step4

\* the affection check at the top of the request form
LetterGateClosed(current_affection, is_tutorial_step4) ==
    current_affection < required_affection /\ ~is_tutorial_step4

LetterThemes == {<<>>, <<"sunset">>}

\* render_letter_tab up to the end of the request form: whether the form was
\* reached, the submit_request calls and the tutorial letters generated
render_letter_tab(current_affection, is_tutorial_step4, has_request, submitted, theme) ==
    LET nothing == [form_reached |-> FALSE, submit_calls |-> 0, tutorial_letters |-> 0]
    IN  IF LetterGateClosed(current_affection, is_tutorial_step4) THEN nothing
        ELSE IF has_request THEN nothing
        ELSE IF ~submitted \/ theme = <<>> THEN [nothing EXCEPT !.form_reached = TRUE]
        ELSE IF is_tutorial_step4
        THEN [form_reached |-> TRUE, submit_calls |-> 0, tutorial_letters |-> 1]
        ELSE [form_reached |-> TRUE, submit_calls |-> 1, tutorial_letters |-> 0]

\* one run of the letter tab
LetterRun ==
    /\ app = "main_app"
    /\ \E is_tutorial_step4 \in BOOLEAN, has_request \in BOOLEAN,
          submitted \in BOOLEAN, theme \in LetterThemes :
          LET r == render_letter_tab(ss_affection, is_tutorial_step4,
                                     has_request, submitted, theme)
          IN  obs' = [BlankObs EXCEPT !.op = "letter",
                                      !.exempt = is_tutorial_step4,
                                      !.form_reached = r.form_reached,
                                      !.submit_calls = r.submit_calls,
                                      !.tutorial_letters = r.tutorial_letters]
    /\ UNCHANGED <<app, env, now, ss_messages, ss_affection, ss_theme, ss_limiter,
                   ss_last_sent, ss_notifications, mmvars, civars, scvars, sxvars, xvars>>

InitMain == InitChat /\ app = "main_app"

\* SessionAPIClient.full_reset_session (section 4.10) and the rest of the
\* branch that runs it: the call reports success and the branch runs to its
\* end, the call reports success and a later statement of the branch raises,
\* the call reports a failure, or the call raises
FullResetOutcomes == {"success", "broken", "failure", "raise"}

\* a flag that stays armed after a failed attempt (a variant used to test the claims)
ConfirmAfterAttemptKeptOnFailure(outcome) == outcome \in {"failure", "raise"}

\* st.session_state.full_reset_confirm = False after the try statement
ConfirmAfterAttempt(outcome) == FALSE

\* a click on the full reset button of the settings panel
FullResetClick ==
    /\ app = "main_app"
    /\ ss_notifications' = <<>>
    /\ ss_memory_notifications' = <<>>
    /\ IF ~ss_full_reset_confirm
       THEN /\ ss_full_reset_confirm' = TRUE
            /\ obs' = [BlankObs EXCEPT !.op = "full_reset"]
            /\ UNCHANGED <<ss_messages, ss_affection, ss_theme, ss_limiter,
                           ss_last_sent, ss_ura_mode, ss_user_id, ss_show_all_hidden,
                           ss_flip_states, ms_queued, mm_cache>>
       ELSE \E outcome \in FullResetOutcomes :
            /\ ss_full_reset_confirm' = ConfirmAfterAttempt(outcome)
            /\ IF outcome \in {"success", "broken"}
               THEN \* every key but _session_id and session_info is deleted;
                    \* initialize_session_state builds the chat state anew
                    /\ ss_messages' = SeededMessages("main_app")
                    /\ ss_affection' = InitialAffection
                    /\ ss_theme' = "default"
                    /\ ss_limiter' = create_limiter_state
                    /\ ss_last_sent' = Absent
                    /\ ss_ura_mode' = FALSE
                    /\ ss_show_all_hidden' = FALSE
                    /\ ss_flip_states' = <<>>
                    /\ ms_queued' = NoMilestones
                    /\ mm_cache' = <<>>
                    /\ \E new_session_id \in reset_session(ss_user_id) :
                          /\ ss_user_id' = new_session_id
                          /\ obs' = [BlankObs EXCEPT
                                        !.op = "full_reset", !.was_armed = TRUE,
                                        !.full_reset_calls = 1, !.keys_cleared = TRUE,
                                        !.outcome = outcome,
                                        !.new_session_id = new_session_id]
               ELSE /\ obs' = [BlankObs EXCEPT
                                  !.op = "full_reset", !.was_armed = TRUE,
                                  !.full_reset_calls = 1, !.outcome = outcome]
                    /\ UNCHANGED <<ss_messages, ss_affection, ss_theme, ss_limiter,
                                   ss_last_sent, ss_ura_mode, ss_user_id,
                                   ss_show_all_hidden, ss_flip_states, ms_queued,
                                   mm_cache>>
    /\ UNCHANGED <<app, env, now, mm_ret, civars, scvars, xvars>>

\* the handlers of a main_app session, the clock standing still
NextMain == (MainRun \/ MainReset \/ LetterRun \/ UraToggle \/ FullResetClick)

SpecMain == InitMain /\ [][NextMain]_vars

(***************************************************************************)
(* The dog button of main_app and the flip state the chat history reads.   *)
(* Python counts the messages from 0: the message at place i of the model  *)
(* has the index i - 1.  No reply of main_app carries a hidden part, so    *)
(* the flip button of a single message is never drawn.                     *)
(***************************************************************************)
\* the message_id of the message at place i: the seeded greeting has none,
\* the send handler gives user_<len> and assistant_<len + 1>, both computed
\* before the two messages are appended
StoredMessageId(messages, i) ==
    IF messages[i].is_initial THEN <<"absent">>
    ELSE IF messages[i].role = "user" THEN <<"user", i - 1>>
    ELSE <<"assistant", i - 1>>

\* render_chat_history: message.get("message_id", f"msg_{i}")
RenderedMessageId(messages, i) ==
    IF StoredMessageId(messages, i) = <<"absent">> THEN <<"msg", i - 1>>
    ELSE StoredMessageId(messages, i)

\* _render_mari_message_with_mask: message_flip_states.get(message_id, False)
IsFlipped(flip_states, message_id) ==
    IF message_id \in DOMAIN flip_states THEN flip_states[message_id] ELSE FALSE

\* the keys handle_dog_button_click writes: msg_<i> for the assistant messages
DogKeys(messages) ==
    {<<"msg", i - 1>> : i \in {j \in 1..Len(messages) : messages[j].role = "assistant"}}

\* DogAssistant.handle_dog_button_click
DogClick ==
    /\ app = "main_app"
    /\ LET new_state == ~ss_show_all_hidden
       IN  /\ ss_show_all_hidden' = new_state
           /\ ss_flip_states' =
                  [k \in DOMAIN ss_flip_states \cup DogKeys(ss_messages) |->
                      IF k \in DogKeys(ss_messages) THEN new_state
                      ELSE ss_flip_states[k]]
    /\ ss_notifications' = <<>>
    /\ ss_memory_notifications' = <<>>
    /\ obs' = [BlankObs EXCEPT !.op = "dog"]
    /\ UNCHANGED <<app, env, now, ss_messages, ss_affection, ss_theme, ss_limiter,
                   ss_last_sent, ss_ura_mode, ss_user_id, ms_queued,
                   ss_full_reset_confirm, mmvars, civars, scvars, xvars>>

\* a main_app session with its chat tab, reset button and dog button
NextDog == (MainRun \/ MainReset \/ DogClick)

SpecDog == InitMain /\ [][NextDog]_vars

\* C17: after a click on the dog button every assistant message of the
\* session is drawn with the flip state the reveal-all flag now has.
C17_DogFlipsAll ==
    (app = "main_app" /\ obs.op = "dog") =>
        \A i \in 1..Len(ss_messages) :
            ss_messages[i].role = "assistant" =>
                IsFlipped(ss_flip_states, RenderedMessageId(ss_messages, i))
                    = ss_show_all_hidden

(***************************************************************************)
(* The milestone notifications of main_app for a user whose messages       *)
(* raise and lower the affection.                                          *)
(***************************************************************************)
NextMilestone == (MainRunMoody \/ MainReset \/ Tick)

SpecMilestone == InitMain /\ [][NextMilestone]_vars

\* C18: between two resets of a session a milestone notification is queued
\* at most once for each of the milestones 40, 60, 80 and 100.
C18_MilestoneOnce ==
    app = "main_app" => \A m \in Milestones : ms_queued[m] <= 1

(***************************************************************************)
(* Both entry points fed with messages that validate_input turns away: an  *)
(* empty one, a blank one, one that is too long and one that holds the     *)
(* control character SOH, next to a valid one.                             *)
(***************************************************************************)
ProbeInputs == {<<>>, <<" ">>, LongInput, <<"SOH">>, <<"the", "beach">>}

MainRunProbe == MainRunWith(ProbeInputs)

StRunProbe == StRunWith(ProbeInputs)

NextInput == (MainRunProbe \/ StRunProbe)

SpecInput == InitChat /\ [][NextInput]_vars

\* C20: for a message that validate_input turns away, neither entry point
\* makes a dialogue or a scene provider call.
C20_InvalidNeverSent ==
    (obs.op = "send" /\ ~validate_input(obs.input, MaxInputLen)[1]) =>
        (obs.llm_calls = 0 /\ obs.scene_calls = 0)

(***************************************************************************)
(* The "reflect into conversation" button of a completed letter.           *)
(***************************************************************************)
\* the methods class MemoryManager defines
MemoryManagerMethods ==
    {"__init__", "extract_important_words", "_extract_with_rules",
     "should_compress_history", "compress_history", "get_memory_summary",
     "clear_memory", "get_memory_stats"}

\* the two messages of the handler, which quote the theme of the letter
letter_message(theme) == <<"i_read_your_letter_about">> \o theme

letter_response(theme) == <<"you_read_the_letter_about">> \o theme

\* a click on the reflect button of a completed letter with the given theme:
\* the handler runs inside a try whose except clause reports the error
ReflectClick ==
    /\ app = "main_app"
    /\ \E theme \in LetterThemes \ {<<>>} :
          IF "add_important_memory" \notin MemoryManagerMethods
          THEN \* AttributeError at the first statement of the handler
               /\ obs' = [BlankObs EXCEPT !.op = "reflect", !.input = theme,
                                          !.raised = TRUE]
               /\ UNCHANGED <<ss_messages, ss_memory_notifications>>
          ELSE /\ ss_messages' =
                      ss_messages \o
                      <<[role |-> "user", content |-> letter_message(theme),
                         is_initial |-> FALSE],
                        [role |-> "assistant", content |-> letter_response(theme),
                         is_initial |-> FALSE]>>
               /\ ss_memory_notifications' =
                      Append(ss_memory_notifications, <<"letter_content">> \o theme)
               /\ obs' = [BlankObs EXCEPT !.op = "reflect", !.input = theme]
    /\ UNCHANGED <<app, env, now, ss_affection, ss_theme, ss_limiter, ss_last_sent,
                   ss_notifications, ss_ura_mode, ss_user_id, ss_show_all_hidden,
                   ss_flip_states, ms_queued, ss_full_reset_confirm,
                   mmvars, civars, scvars, xvars>>

\* a main_app session with its chat tab and the letters it received
NextReflect == (MainRun \/ MainReset \/ ReflectClick)

SpecReflect == InitMain /\ [][NextReflect]_vars

\* C21: a click on the reflect button of a completed letter appends one user
\* message and then one assistant message, both quoting the theme of the
\* letter, and adds one notification to memory_notifications.
C21_ReflectAppends ==
    [][obs'.op = "reflect" =>
          /\ Len(ss_messages') = Len(ss_messages) + 2
          /\ SubSeq(ss_messages', 1, Len(ss_messages)) = ss_messages
          /\ ss_messages'[Len(ss_messages) + 1].role = "user"
          /\ ss_messages'[Len(ss_messages) + 2].role = "assistant"
          /\ \A k \in 1..2 : \A i \in 1..Len(obs'.input) :
                HasToken(ss_messages'[Len(ss_messages) + k].content, obs'.input[i])
          /\ Len(ss_memory_notifications') = Len(ss_memory_notifications) + 1]_vars

(***************************************************************************)
(* Several browser sessions served by one process.  Streamlit gives every  *)
(* session its own st.session_state; the managers initialize_all_managers  *)
(* returns are shared, and none of them keeps a field it writes after its  *)
(* construction.  A MemoryManager is an object on the heap that a session  *)
(* holds by reference.                                                     *)
(***************************************************************************)
Sessions == {1, 2}

MaxIsoSends == 1    \* the messages the sessions have processed between them

\* a MemoryManager made by initialize_all_managers (a variant used to test the claims)
SharedMemoryManager(s) == 1

\* the MemoryManager initialize_session_state makes for session s
SessionMemoryManager(s) == s

\* st.session_state.chat of a session that was just opened
FreshChat(s) ==
    [messages |-> SeededMessages("main_app"), affection |-> InitialAffection,
     theme |-> "default", limiter |-> create_limiter_state, ura_mode |-> FALSE,
     last_sent |-> Absent, memory_manager |-> SessionMemoryManager(s)]

\* the messages of a session after n turns that ended in the error line
RECURSIVE Conversation(_)
Conversation(n) ==
    IF n = 0 THEN SeededMessages("main_app")
    ELSE add_message("assistant", MainErrorLine,
             add_message("user",
                         IF n % 2 = 1 THEN <<"the", "beach">> ELSE <<"thank", "you">>,
                         Conversation(n - 1)))

\* st.session_state.chat of a session after history_threshold turns, the last
\* of them a limiter window ago
LongChat(s) ==
    [messages |-> Conversation(history_threshold),
     affection |-> InitialAffection + (history_threshold \div 2) * AffectionStep,
     theme |-> "default",
     limiter |-> [timestamps |-> <<0 - LimiterWindow>>, is_blocked |-> FALSE],
     ura_mode |-> FALSE, last_sent |-> <<"thank", "you">>,
     memory_manager |-> SessionMemoryManager(s)]

\* the run of the chat tab of session state c: the possible (chat, cache) pairs
chat_tab_run(c, cache, send_button, user_input, t, e, session_ok) ==
    IF ~MainSendCondition(send_button, user_input) \/ c.last_sent = user_input
    THEN {[chat |-> c, cache |-> cache, processed |-> FALSE]}
    ELSE IF Len(user_input) > MaxInputLen
    THEN {[chat |-> [c EXCEPT !.last_sent = user_input], cache |-> cache,
           processed |-> FALSE]}
    ELSE {[chat |-> [c EXCEPT
                       !.last_sent = user_input,
                       !.messages = add_message("assistant", r.response,
                                        add_message("user", user_input, c.messages)),
                       !.affection = r.affection,
                       !.theme = r.theme,
                       !.limiter = r.limiter],
           cache |-> r.cache, processed |-> TRUE] :
             r \in UNION {process_chat_message(user_input, c.messages, c.affection,
                              c.theme, c.limiter, cache, t, e, session_ok, reply,
                              "raise") : reply \in SceneRepliesFor(e)}}

\* session s runs its chat tab
IsoRun(s) ==
    /\ \E send_button \in BOOLEAN, user_input \in UserInputs, session_ok \in BOOLEAN :
          \E r \in chat_tab_run(iso_chat[s], iso_heap[iso_chat[s].memory_manager],
                                send_button, user_input, now, env, session_ok) :
              /\ r.processed => iso_sends < MaxIsoSends
              /\ iso_sends' = IF r.processed THEN iso_sends + 1 ELSE iso_sends
              /\ iso_chat' = [iso_chat EXCEPT ![s] = r.chat]
              /\ iso_heap' = [iso_heap EXCEPT ![iso_chat[s].memory_manager] = r.cache]
    /\ iso_actor' = s
    /\ UNCHANGED <<civars, mmvars, scvars, ssvars, sxvars, dgvars, rtvars, ltvars>>

\* session s clicks the reset button
IsoReset(s) ==
    /\ iso_chat' = [iso_chat EXCEPT ![s] =
                       [FreshChat(s) EXCEPT
                           !.memory_manager = iso_chat[s].memory_manager]]
    /\ iso_heap' = [iso_heap EXCEPT ![iso_chat[s].memory_manager] = <<>>]
    /\ iso_actor' = s
    /\ UNCHANGED <<iso_sends, civars, mmvars, scvars, ssvars, sxvars, dgvars, rtvars, ltvars>>

\* session s clicks the safety button
IsoUraToggle(s) ==
    /\ iso_chat' = [iso_chat EXCEPT ![s].ura_mode = ~iso_chat[s].ura_mode]
    /\ iso_actor' = s
    /\ UNCHANGED <<iso_heap, iso_sends, civars, mmvars, scvars, ssvars, sxvars, dgvars, rtvars, ltvars>>

IsoRunAny == \E s \in Sessions : IsoRun(s)

IsoResetAny == \E s \in Sessions : IsoReset(s)

IsoUraToggleAny == \E s \in Sessions : IsoUraToggle(s)

InitIso ==
    /\ CiIdle /\ MmIdle /\ ScIdle /\ SxIdle /\ DgIdle /\ RtIdle /\ LtIdle
    /\ app = "main_app"
    /\ env \in [gemini : {FALSE}, groq : BOOLEAN]
    /\ now = 0
    /\ ss_messages = <<>> /\ ss_affection = 0 /\ ss_theme = "default"
    /\ ss_limiter = create_limiter_state /\ ss_last_sent = Absent
    /\ ss_notifications = <<>> /\ obs = [op |-> "none"]
    /\ iso_chat \in {f \in [Sessions -> {FreshChat(s) : s \in Sessions}
                                          \cup {LongChat(s) : s \in Sessions}] :
                        \A s \in Sessions :
                            f[s].memory_manager = SessionMemoryManager(s)}
    /\ iso_heap = [r \in {SessionMemoryManager(s) : s \in Sessions} |-> <<>>]
    /\ iso_actor = 0
    /\ iso_sends = 0

NextIso == (IsoRunAny \/ IsoResetAny \/ IsoUraToggleAny)

SpecIso == InitIso /\ [][NextIso]_vars

\* what the claim lists of the state of session s
IsoView(s) ==
    [messages |-> iso_chat[s].messages, affection |-> iso_chat[s].affection,
     theme |-> iso_chat[s].theme, limiter |-> iso_chat[s].limiter,
     cache |-> iso_heap[iso_chat[s].memory_manager]]

RECURSIVE StConversation(_, _)
StConversation(n, line) ==
    IF n = 0 THEN SeededMessages("streamlit_app")
    ELSE add_message("assistant", line,
             add_message("user",
                         IF n % 2 = 1 THEN <<"the", "beach">> ELSE <<"thank", "you">>,
                         StConversation(n - 1, line)))

\* what streamlit_app answers where the provider is absent or fails
StLongLine(e) == IF e.gemini THEN LlmErrorLine ELSE DemoLine

LongMessages(a, e) ==
    IF a = "main_app" THEN Conversation(history_threshold)
    ELSE StConversation(history_threshold - 1, StLongLine(e))

\* the turns of the conversation so far that held the word of thanks
LongThanks(a) ==
    IF a = "main_app" THEN history_threshold \div 2
    ELSE (history_threshold - 1) \div 2

\* the lengths of the message list at which the model lets a turn start: the
\* two turns after the long conversation in main_app, the turn that reaches
\* the threshold and the turn after the compression in streamlit_app
LongMainLengths == {2 * history_threshold + 1, 2 * history_threshold + 3}

LongStLengths == {2 * (history_threshold - 1), keep_recent}

LongInputs == {<<>>, <<"the", "beach">>, <<"thank", "you">>}

MainRunLong == MainRunCapped(LongInputs, LongMainLengths)

StRunLong == StRunCapped(LongInputs, LongStLengths)

InitLong ==
    /\ CiIdle /\ MmIdle /\ ScIdle /\ XIdle
    /\ app \in {"main_app", "streamlit_app"}
    /\ env \in [gemini : BOOLEAN, groq : BOOLEAN]
    /\ now = 0
    /\ ss_messages = LongMessages(app, env)
    /\ ss_affection = InitialAffection + LongThanks(app) * AffectionStep
    /\ ss_theme = "default"
    /\ ss_limiter = [timestamps |-> <<0 - LimiterWindow>>, is_blocked |-> FALSE]
    /\ ss_last_sent = IF app = "main_app" THEN <<"thank", "you">> ELSE Absent
    /\ ss_notifications = <<>>
    /\ obs = BlankObs
    /\ ss_ura_mode = FALSE /\ ss_user_id = "sid_a"
    /\ ss_show_all_hidden = FALSE /\ ss_flip_states = <<>>
    /\ ms_queued = [m \in Milestones |->
                       IF app = "main_app" /\ m <= ss_affection THEN 1 ELSE 0]
    /\ ss_full_reset_confirm = FALSE
    /\ ss_memory_notifications = <<>>

NextLong == (MainRunLong \/ StRunLong)

SpecLong == InitLong /\ [][NextLong]_vars

(***************************************************************************)
(* The letter clients: GroqClient.generate_structure and                   *)
(* TogetherClient.enhance_emotion, one coroutine with a retry loop each.   *)
(***************************************************************************)
max_retries == 3

retry_delay == 1

RECURSIVE Pow2(_)
Pow2(n) == IF n = 0 THEN 1 ELSE 2 * Pow2(n - 1)

\* how a provider call can end: Groq answers with a text, answers with a
\* message without content, or the call raises; Together answers 200 with
\* the text, 200 with a body of another shape, another status, or raises
ProviderOutcomes(client) ==
    IF client = "groq" THEN {"text", "no_content", "raise"}
    ELSE {"text", "other_body", "non_200", "raise"}

\* whether the try block reaches its return statement
AttemptSucceeds(outcome) == outcome = "text"

\* a test for the last attempt that is off by one (a variant used to test the claims)
IsLastAttemptOffByOne(attempt) == attempt = max_retries

\* attempt == self.max_retries - 1
IsLastAttempt(attempt) == attempt = max_retries - 1

\* a delay that does not grow (a variant used to test the claims)
BackoffDelayFixed(attempt) == retry_delay

\* self.retry_delay * (2 ** attempt)
BackoffDelay(attempt) == retry_delay * Pow2(attempt)

\* one pass through the body of the loop up to its return, raise or sleep
RtAttempt ==
    /\ rt_pc = "call"
    /\ rt_calls' = rt_calls + 1
    /\ IF AttemptSucceeds(rt_outcomes[rt_calls + 1])
       THEN /\ rt_pc' = "returned"
            /\ rt_result' = "str"
       ELSE IF IsLastAttempt(rt_attempt)
       THEN /\ rt_pc' = "raised"
            /\ UNCHANGED rt_result
       ELSE /\ rt_pc' = "sleep"
            /\ UNCHANGED rt_result
    /\ UNCHANGED <<rt_client, rt_outcomes, rt_attempt, rt_waits>>
    /\ UNCHANGED <<civars, mmvars, scvars, ssvars, sxvars, dgvars, isovars, ltvars>>

\* asyncio.sleep(self.retry_delay * (2 ** attempt)) and the next value of
\* the loop variable; the function ends without a value when range is used up
RtSleep ==
    /\ rt_pc = "sleep"
    /\ rt_waits' = Append(rt_waits, BackoffDelay(rt_attempt))
    /\ rt_attempt' = rt_attempt + 1
    /\ IF rt_attempt + 1 < max_retries
       THEN /\ rt_pc' = "call"
            /\ UNCHANGED rt_result
       ELSE /\ rt_pc' = "returned"
            /\ rt_result' = "None"
    /\ UNCHANGED <<rt_client, rt_outcomes, rt_calls>>
    /\ UNCHANGED <<civars, mmvars, scvars, ssvars, sxvars, dgvars, isovars, ltvars>>

InitRetry ==
    /\ CiIdle /\ MmIdle /\ ScIdle /\ SsIdle /\ SxIdle /\ DgIdle /\ IsoIdle /\ LtIdle
    /\ rt_client \in {"groq", "together"}
    /\ rt_outcomes \in [1..max_retries -> ProviderOutcomes(rt_client)]
    /\ rt_attempt = 0
    /\ rt_pc = "call"
    /\ rt_calls = 0
    /\ rt_waits = <<>>
    /\ rt_result = "none"

NextRetry == (RtAttempt \/ RtSleep)

SpecRetry == InitRetry /\ [][NextRetry]_vars

\* every provider call and every sleep comes to an end
SpecRetryFair == SpecRetry /\ WF_vars(NextRetry)

\* ---------------------------------------------------------------------------
\* The tutorial letter (main_app.py, generate_tutorial_letter_async).  A letter
\* content is the list of the lengths of the pieces content.split('。') yields;
\* the characters of a piece are not '。', so the lengths decide every test.

letter_limit == 600

\* len('……')
EllipsisLen == 2

\* the length of the fallback template without the theme
FallbackTemplateLen == 155

\* len("初めての出会いについて"), the theme the tutorial form proposes
DefaultThemeLen == 11

MaxSentences == 3

SentenceLens == {0, 1, 299, 599, 600}

ThemeLens == {DefaultThemeLen, letter_limit}

LetterOutcomes == {"content", "raise", "absent"}

RECURSIVE SumLens(_)
SumLens(s) == IF s = <<>> THEN 0 ELSE Head(s) + SumLens(Tail(s))

\* len('。'.join(sentences))
JoinedLen(sentences) ==
    IF sentences = <<>> THEN 0 ELSE SumLens(sentences) + Len(sentences) - 1

\* len(truncated_content) when it holds the sentences kept, each followed by '。'
TruncatedLen(kept) == SumLens(kept) + Len(kept)

RECURSIVE KeepSentences(_, _)
\* the for loop: a sentence is added while the text stays within the limit
KeepSentences(kept, rest) ==
    IF rest = <<>> THEN kept
    ELSE IF TruncatedLen(kept) + Head(rest) + 1 <= letter_limit
         THEN KeepSentences(Append(kept, Head(rest)), Tail(rest))
         ELSE kept

RECURSIVE RStripStops(_)
\* truncated_content.rstrip('。'): every trailing '。' goes, so do empty sentences
RStripStops(kept) ==
    IF kept = <<>> THEN <<>>
    ELSE IF kept[Len(kept)] = 0 THEN RStripStops(SubSeq(kept, 1, Len(kept) - 1))
    ELSE kept

generate_tutorial_letter_fallback(theme_len) ==
    [source |-> "fallback", sentences |-> <<>>, ellipsis |-> FALSE,
     length |-> FallbackTemplateLen + theme_len]

generate_tutorial_letter_async(theme_len, outcome, content) ==
    IF outcome = "absent" THEN generate_tutorial_letter_fallback(theme_len)
    ELSE IF outcome = "raise" THEN generate_tutorial_letter_fallback(theme_len)
    ELSE IF JoinedLen(content) > letter_limit
         THEN LET stripped == RStripStops(KeepSentences(<<>>, content))
              IN  [source |-> "generator", sentences |-> stripped, ellipsis |-> TRUE,
                   length |-> JoinedLen(stripped) + EllipsisLen]
         ELSE [source |-> "generator", sentences |-> content, ellipsis |-> FALSE,
               length |-> JoinedLen(content)]

LetterContents == UNION {[1..n -> SentenceLens] : n \in 1..MaxSentences}

TutorialLetter ==
    /\ lt_result = <<>>
    /\ lt_result' = generate_tutorial_letter_async(lt_theme, lt_outcome, lt_content)
    /\ UNCHANGED <<lt_theme, lt_outcome, lt_content,
                   civars, mmvars, scvars, ssvars, sxvars, dgvars, isovars, rtvars>>

InitLetter ==
    /\ lt_theme \in ThemeLens
    /\ lt_outcome \in LetterOutcomes
    /\ lt_content \in (IF lt_outcome = "content" THEN LetterContents ELSE {<<>>})
    /\ lt_result = <<>>
    /\ CiIdle /\ MmIdle /\ ScIdle /\ SsIdle /\ SxIdle /\ DgIdle /\ IsoIdle /\ RtIdle

NextLetter == TutorialLetter

SpecLetter == InitLetter /\ [][NextLetter]_vars

IsPrefixOf(s, t) == Len(s) <= Len(t) /\ s = SubSeq(t, 1, Len(s))

\* C24: whatever content the letter generator produces, the tutorial letter
\* returned has at most 600 characters; a content of more than 600 characters
\* is cut after a whole sentence and ends with the ellipsis.
C24_LetterWithinLimit ==
    (lt_result # <<>> /\ lt_result.source = "generator") =>
        /\ lt_result.length <= letter_limit
        /\ (JoinedLen(lt_content) > letter_limit) =>
               /\ lt_result.ellipsis
               /\ IsPrefixOf(lt_result.sentences, lt_content)

RtFinished == rt_pc \in {"returned", "raised"}

\* the provider calls made so far that failed
RtFailures == Cardinality({k \in 1..rt_calls : ~AttemptSucceeds(rt_outcomes[k])})

\* C15: a letter client makes at most 3 provider calls, returns the text of
\* the first call that succeeds and calls no more, raises exactly when all 3
\* calls failed, ends only by returning a string or raising, and comes to an
\* end.
C15_BoundedRetry ==
    /\ [](/\ rt_calls <= 3
          /\ rt_pc = "returned" =>
                /\ rt_result = "str"
                /\ AttemptSucceeds(rt_outcomes[rt_calls])
                /\ RtFailures = rt_calls - 1
          /\ rt_pc = "raised" <=> (rt_calls = 3 /\ RtFailures = 3))
    /\ <>RtFinished

C15_Witness ==
    /\ rt_pc = "returned" /\ rt_calls = 3 /\ rt_client = "together"
    /\ rt_outcomes[1] = "non_200" /\ rt_outcomes[2] = "raise"

\* C16 as the specification states it: a wait follows each failed attempt,
\* and the wait after the k-th failed attempt is 2^(k-1) seconds, k = 1, 2, 3.
C16_BackoffAfterEach ==
    RtFinished =>
        /\ Len(rt_waits) = RtFailures
        /\ \A k \in 1..Len(rt_waits) : rt_waits[k] = Pow2(k - 1)

\* C16: a wait of 2^(k-1) seconds follows the k-th failed attempt for
\* k = 1, 2; the third failed attempt is followed by the error, not a wait.
C16_BackoffBetweenAttempts ==
    RtFinished =>
        /\ Len(rt_waits) = (IF RtFailures < 3 THEN RtFailures ELSE 2)
        /\ \A k \in 1..Len(rt_waits) : rt_waits[k] = Pow2(k - 1)

C16_Witness == rt_pc = "raised" /\ rt_waits = <<1, 2>>

(***************************************************************************)
(* DialogueGenerator.call_llm applied to every kind of call.               *)
(***************************************************************************)
DgCallLlm ==
    /\ dg_ret = <<>>
    /\ dg_ret' = call_llm(dg_call.model,
                          dg_call.system_is_str /\ dg_call.user_is_str,
                          dg_call.is_json_output, dg_call.outcome)
    /\ UNCHANGED <<dg_call, civars, mmvars, scvars, ssvars, sxvars, isovars, rtvars, ltvars>>

InitLlm ==
    /\ CiIdle /\ MmIdle /\ ScIdle /\ SsIdle /\ SxIdle /\ IsoIdle /\ RtIdle /\ LtIdle
    /\ dg_call \in [model : BOOLEAN, system_is_str : BOOLEAN, user_is_str : BOOLEAN,
                     is_json_output : BOOLEAN, outcome : LlmOutcomes]
    /\ dg_ret = <<>>

NextLlm == DgCallLlm

SpecLlm == InitLlm /\ [][NextLlm]_vars

\* the line the claim names for a call that fails, or the sentinel
CannedOrSentinel(line) == IF dg_call.is_json_output THEN JsonSentinel ELSE line

\* C12: call_llm never raises; it returns the demo string without a model,
\* the type-mismatch line for a prompt that is not text, the system-trouble
\* line when the provider raises, the empty-output line for empty output and
\* the provider text otherwise, each canned line replaced by the JSON
\* sentinel when is_json_output is true.
C12_CallLlmTotal ==
    (dg_ret # <<>>) =>
        /\ ~dg_ret.raised
        /\ dg_ret.text =
              IF ~dg_call.model THEN CannedOrSentinel(DemoLine)
              ELSE IF ~dg_call.system_is_str \/ ~dg_call.user_is_str
                   THEN CannedOrSentinel(TypeMismatchLine)
              ELSE IF dg_call.outcome \in {"raise", "text_raises"}
                   THEN CannedOrSentinel(LlmErrorLine)
              ELSE IF dg_call.outcome = "empty"
                   THEN CannedOrSentinel(LlmNoWordsLine)
              ELSE ProviderText(dg_call.outcome)

C12_Witness ==
    /\ dg_ret # <<>> /\ dg_call.model /\ dg_call.system_is_str /\ dg_call.user_is_str
    /\ dg_call.outcome = "raise" /\ dg_call.is_json_output
    /\ dg_ret.text = JsonSentinel

(***************************************************************************)
(* Claims about the chat turn.                                             *)
(***************************************************************************)
Seeded ==
    /\ ss_messages = SeededMessages(app)
    /\ ss_affection = InitialAffection
    /\ ss_theme = "default"

\* every recorded timestamp of the session's limiter is a window or more old
WindowElapsed ==
    \A i \in 1..Len(ss_limiter.timestamps) :
        now - ss_limiter.timestamps[i] >= LimiterWindow

\* C1: with no provider credentials at all, a non-empty message that the rate
\* limiter allows gets exactly the demo line as its reply, in main_app and in
\* streamlit_app alike, and no provider call is made.
C1_DemoLine ==
    (/\ obs.op = "send" /\ obs.processed /\ obs.session_ok /\ obs.allowed
     /\ ~env.gemini /\ ~env.groq)
    => (/\ obs.response = DemoLine
        /\ obs.llm_calls = 0 /\ obs.scene_calls = 0)

\* C2: from the seeded session, a submitted message that is empty after
\* trimming is rejected: no provider call, no message appended, and the
\* affection stays at 30.
C2_EmptyRejected ==
    [][(Seeded /\ obs'.op = "send" /\ Strip(obs'.input) = <<>>)
        => (/\ ss_messages' = ss_messages
            /\ ss_affection' = InitialAffection
            /\ ~obs'.processed
            /\ obs'.dialogue_calls = 0
            /\ obs'.llm_calls = 0 /\ obs'.scene_calls = 0)]_vars

C2_Witness ==
    /\ obs.op = "send" /\ obs.input = <<" ">> /\ ~obs.processed
    /\ Seeded

\* C3: a streamlit_app session that the limiter has blocked is not blocked for
\* good: once the window has elapsed, a valid message the user submits reaches
\* check_limiter and is allowed, no reset needed.
C3_BlockedRecovers ==
    [][(/\ app = "streamlit_app"
        /\ ss_limiter.is_blocked /\ WindowElapsed
        /\ obs'.op = "send" /\ validate_input(obs'.input, MaxInputLen)[1])
        => (obs'.reached_limiter /\ obs'.allowed)]_vars

\* C11: in the letter tab, whenever the affection is below 40 and the
\* tutorial step-4 exemption is not active, the request form is not reached
\* and RequestManager.submit_request is not invoked.
C11_LetterGate ==
    (obs.op = "letter" /\ ss_affection < required_affection /\ ~obs.exempt)
    => (~obs.form_reached /\ obs.submit_calls = 0)

C11_Witness ==
    /\ obs.op = "letter" /\ ~obs.exempt /\ ~obs.form_reached
    /\ ss_affection < required_affection

\* the gate does let a request through once the affection is 40
C11_SubmitReachable ==
    obs.op = "letter" /\ obs.submit_calls = 1 /\ ss_affection >= required_affection

\* C13: after the reset button of main_app the chat state is the initial
\* one: the greeting alone, affection 30, theme default, a fresh limiter
\* state, ura_mode off, an empty keyword cache, and the user id is the id
\* reset_session returned.
C13_ResetRestoresInitial ==
    (app = "main_app" /\ obs.op = "reset") =>
        /\ ss_messages = SeededMessages("main_app")
        /\ ss_affection = InitialAffection
        /\ ss_theme = "default"
        /\ ss_limiter = create_limiter_state
        /\ ~ss_ura_mode
        /\ mm_cache = <<>>
        /\ ss_user_id = obs.new_session_id

C13_Witness ==
    app = "main_app" /\ obs.op = "reset" /\ obs.was_dirty /\ ss_user_id = "sid_b"

\* the chat state of the session and its user id
ChatKeys ==
    <<ss_messages, ss_affection, ss_theme, ss_limiter, ss_last_sent, ss_ura_mode,
      ss_user_id, ss_show_all_hidden, ss_flip_states, mm_cache>>

\* C19: a click on the full reset button with the confirmation flag not
\* armed arms the flag, calls no full_reset_session and clears no key;
\* full_reset_session is called only by a click with the flag armed; and
\* after each attempt, whatever its outcome, the flag is not armed.
C19_TwoStepFullReset ==
    /\ [](app = "main_app" =>
            /\ obs.full_reset_calls > 0 => (obs.op = "full_reset" /\ obs.was_armed)
            /\ (obs.op = "full_reset" /\ ~obs.was_armed) =>
                   (ss_full_reset_confirm /\ ~obs.keys_cleared)
            /\ (obs.op = "full_reset" /\ obs.was_armed) =>
                   (~ss_full_reset_confirm /\ obs.full_reset_calls = 1))
    /\ [][(obs'.op = "full_reset" /\ ~ss_full_reset_confirm) =>
              (ss_full_reset_confirm' /\ UNCHANGED ChatKeys)]_vars

C19_Witness ==
    /\ obs.op = "full_reset" /\ obs.was_armed /\ obs.outcome = "failure"
    /\ ~ss_full_reset_confirm /\ Len(ss_messages) > 1

C19_SuccessReachable ==
    /\ obs.op = "full_reset" /\ obs.outcome = "success" /\ ~ss_full_reset_confirm

\* the place of a step in the order the specification gives
StepRank(step) ==
    CASE step = "limit" -> 1 [] step = "affection" -> 2 [] step = "scene" -> 3
      [] step = "memory" -> 4 [] step = "dialogue" -> 5

\* the place of a step in a page run of streamlit_app, which compresses the
\* history before it reads the input
StStepRank(step) == IF step = "memory" THEN 0 ELSE StepRank(step)

C22_MainWitness ==
    /\ app = "main_app" /\ obs.processed /\ obs.steps = MainTurnSteps
    /\ mm_cache # <<>>

\* C23: a chat message of main_app that check_limiter denies is answered
\* with the slow-down line; affection, theme and keyword cache stay as they
\* were, nothing is queued for notification, and no sentiment, scene or
\* dialogue step runs.
C23_DeniedTurnFrame ==
    /\ []((app = "main_app" /\ obs.reached_limiter /\ ~obs.allowed) =>
             /\ obs.response = SlowDownLine
             /\ ss_notifications = <<>>
             /\ obs.steps = <<"limit">>
             /\ obs.dialogue_calls = 0 /\ obs.llm_calls = 0 /\ obs.scene_calls = 0)
    /\ [][(app = "main_app" /\ obs'.reached_limiter /\ ~obs'.allowed) =>
              UNCHANGED <<ss_affection, ss_theme, mm_cache>>]_vars

C23_Witness ==
    /\ app = "main_app" /\ obs.reached_limiter /\ ~obs.allowed
    /\ obs.input = <<"thank", "you">>
    /\ obs.response = SlowDownLine
    /\ ss_limiter.is_blocked

\* C25: in main_app no step but a reset removes a message: the list before the
\* step is a prefix of the list after it, also on the turns in which
\* compress_history has ten or more user messages to compress and fills the
\* keyword cache.
C25_MainKeepsMessages ==
    [][(app = "main_app" /\ obs'.op \notin {"reset", "full_reset"}) =>
          /\ Len(ss_messages') >= Len(ss_messages)
          /\ SubSeq(ss_messages', 1, Len(ss_messages)) = ss_messages]_vars

C25_Witness ==
    /\ app = "main_app" /\ obs.op = "send" /\ obs.allowed
    /\ "memory" \in {obs.steps[i] : i \in 1..Len(obs.steps)}
    /\ mm_cache # <<>>
    /\ Len(ss_messages) = 2 * history_threshold + 3
    /\ ss_messages[1].is_initial

\* C27: in every reachable state the theme of the session is one of the seven
\* catalog keys, whatever the scene-detection provider answered: a scene
\* outside the catalog, a value that is no string, no scene, no JSON.
C27_ThemeInCatalog ==
    /\ ss_theme \in Themes
    /\ Cardinality(Themes) = 7

C27_Witness ==
    /\ obs.op = "send" /\ obs.scene_calls = 1
    /\ obs.scene_reply[1].kind = "json" /\ obs.scene_reply[1].scene = "moon_base"
    /\ ss_theme = "aquarium_night"
    /\ app = "main_app"

\* the same case in streamlit_app, after a scene picked in the selectbox
C27_StWitness ==
    /\ obs.op = "send" /\ obs.scene_calls = 1
    /\ obs.scene_reply[1].kind = "json" /\ ~obs.scene_reply[1].scene_is_str
    /\ ss_theme = "shrine_day"
    /\ app = "streamlit_app"

\* the messages of a role in a list
RoleCount(messages, role) ==
    Cardinality({i \in 1..Len(messages) : messages[i].role = role})

\* the seeded greeting, then user and assistant messages in turn
GreetingThenPairs(messages) ==
    /\ Len(messages) >= 1
    /\ messages[1].is_initial /\ messages[1].role = "assistant"
    /\ \A i \in 2..Len(messages) :
          /\ ~messages[i].is_initial
          /\ messages[i].role = IF i % 2 = 0 THEN "user" ELSE "assistant"
    /\ RoleCount(messages, "assistant") = RoleCount(messages, "user") + 1

\* the list after the step is the list before it and one user message
\* followed by one assistant message
AppendsOnePair(before, after) ==
    /\ Len(after) = Len(before) + 2
    /\ SubSeq(after, 1, Len(before)) = before
    /\ after[Len(before) + 1].role = "user"
    /\ after[Len(before) + 2].role = "assistant"

\* C28: in main_app the message list is the seeded greeting followed by user
\* and assistant messages in strict alternation, one assistant message more
\* than user messages; every processed send appends one user and then one
\* assistant message whatever the turn's outcome, and so does the reflect
\* action.
C28_StrictAlternation ==
    /\ [](app = "main_app" => GreetingThenPairs(ss_messages))
    /\ [][(app = "main_app" /\ obs'.op = "send" /\ obs'.processed) =>
              AppendsOnePair(ss_messages, ss_messages')]_vars
    /\ [][(app = "main_app" /\ obs'.op = "reflect") =>
              AppendsOnePair(ss_messages, ss_messages')]_vars

\* C29: in streamlit_app the message list never holds more than 20 messages,
\* and a page run that starts with 10 or more user messages replaces the list
\* by its 4 most recent messages before it appends anything: after the run
\* the list is those 4 messages, followed by the new exchange if one was sent.
C29_StreamlitBounded ==
    /\ [](app = "streamlit_app" => Len(ss_messages) <= 20)
    /\ [][(app = "streamlit_app" /\ obs'.op \in {"send", "run"}
              /\ RoleCount(ss_messages, "user") >= 10) =>
              /\ Len(ss_messages') \in {4, 6}
              /\ SubSeq(ss_messages', 1, 4) = TakeLast(ss_messages, 4)
              /\ obs'.steps # <<>> /\ obs'.steps[1] = "memory"]_vars

C29_Witness ==
    /\ app = "streamlit_app" /\ obs.op = "send" /\ obs.processed
    /\ obs.steps[1] = "memory"
    /\ Len(ss_messages) = 6
    /\ mm_cache # <<>>

\* the list at its longest, the state a compressing run starts from
C29_FullWitness ==
    /\ app = "streamlit_app"
    /\ Len(ss_messages) = 20 /\ RoleCount(ss_messages, "user") = 10

\* C30: in main_app a send whose text equals last_sent_message is dropped: no
\* message is appended, the limiter is not consulted, affection, scene and
\* keyword cache are unchanged and no provider is called.  Every send that
\* passes the send condition and is no duplicate stores its text in
\* last_sent_message, a text rejected for its length included; only the reset
\* and the full reset remove the key; so no text is processed twice in a row.
C30_DuplicateDropped ==
    /\ [][(app = "main_app" /\ obs'.op = "send"
              /\ MainSendCondition(TRUE, obs'.input)
              /\ ss_last_sent = obs'.input) =>
              /\ UNCHANGED <<ss_messages, ss_affection, ss_theme, ss_limiter,
                             mm_cache, ss_last_sent>>
              /\ ~obs'.processed /\ ~obs'.reached_limiter
              /\ obs'.dialogue_calls = 0 /\ obs'.llm_calls = 0
              /\ obs'.scene_calls = 0]_vars
    /\ [][(app = "main_app" /\ obs'.op = "send"
              /\ MainSendCondition(TRUE, obs'.input)) =>
              ss_last_sent' = obs'.input]_vars
    /\ [][(app = "main_app" /\ ss_last_sent # Absent /\ ss_last_sent' = Absent) =>
              obs'.op \in {"reset", "full_reset"}]_vars
    /\ [][(app = "main_app" /\ obs'.op = "send" /\ obs'.processed) =>
              obs'.input # ss_last_sent]_vars

C30_Witness ==
    /\ app = "main_app" /\ obs.op = "send" /\ obs.accepted /\ ~obs.processed
    /\ obs.input = <<"thank", "you">> /\ ss_last_sent = obs.input
    /\ Len(ss_messages) = 3
    /\ ss_messages[2].content = obs.input

\* a text rejected for its length is remembered all the same
C30_LongWitness ==
    /\ app = "main_app" /\ obs.op = "send" /\ obs.accepted /\ ~obs.processed
    /\ obs.input = LongInput /\ ss_last_sent = LongInput
    /\ Len(ss_messages) = 1

\* the completed exchanges of a message list, oldest first, greeting left out
CompletedExchanges(messages) ==
    LET rest == NonInitial(messages)
    IN  [k \in 1..(Len(rest) \div 2) |-> <<rest[2 * k - 1].content, rest[2 * k].content>>]

\* C26: on every turn of main_app that passes the limiter, the history handed
\* to scene detection and dialogue generation holds at most five pairs, none
\* of them the greeting, and they are the most recent completed exchanges in
\* chronological order: after more than five exchanges the last one is in it.
C26_HistoryMostRecent ==
    [][(app = "main_app" /\ obs'.op = "send" /\ obs'.allowed) =>
          LET done == CompletedExchanges(ss_messages)
          IN  /\ Len(obs'.history) <= MainMaxTurns
              /\ obs'.history = IF Len(done) > MainMaxTurns
                                THEN TakeLast(done, MainMaxTurns) ELSE done]_vars

(***************************************************************************)
(* Claims about the ChatInterface text functions.                          *)
(***************************************************************************)
\* positions of the complete [HIDDEN:...] markers of a text
MarkerStarts(s) ==
    {i \in 1..Len(s) : s[i] = HiddenOpen /\ \E j \in (i + 1)..Len(s) : s[j] = "]"}

HasNonSpace(m) == \E i \in 1..Len(m) : m[i] \notin {" ", "TAB", "LF", "VT", "CR"}

HasBadControl(m) == \E i \in 1..Len(m) : m[i] \in {"SOH", "VT"}

\* C4: for every visible text v and hidden text h without "]",
\* detect(create(v, h)) returns (True, v, h).
C4_RoundTrip ==
    (ci_op = "roundtrip" /\ \A i \in 1..Len(ci_h) : ci_h[i] # "]")
        => ci_res = [has |-> TRUE, visible |-> ci_v, hidden |-> ci_h]

\* C5: for a content with two or more [HIDDEN:...] markers, detection returns
\* one hidden/visible pair and the visible text holds no remaining marker.
C5_MultipleHidden ==
    (ci_op \in {"roundtrip", "detect"} /\ Cardinality(MarkerStarts(ci_prev)) >= 2)
        => (ci_res.has /\ MarkerStarts(ci_res.visible) = {})

\* C6: sanitize_message(sanitize_message(x)) = sanitize_message(x).
C6_SanitizeIdempotent == (ci_op = "sanitize_again") => (ci_res = ci_prev)

C6_Witness ==
    /\ ci_op = "sanitize_again"
    /\ \E i \in 1..Len(ci_v) : ci_v[i] = "<"
    /\ \E i \in 1..Len(ci_v) : ci_v[i] = "&"
    /\ ci_res # ci_v

\* C7: validate_input(m) returns (True, "") iff m has a non-whitespace
\* character, len(m) <= max_input_length and m has no control character
\* other than newline, carriage return and tab; otherwise (False, error) with
\* the empty error first, the length error second, the invalid one last.
C7_Validate ==
    (ci_op = "validate") =>
        LET m == ci_prev
            valid == HasNonSpace(m) /\ Len(m) <= MaxInputLen /\ ~HasBadControl(m)
        IN  ci_res = IF valid THEN <<TRUE, "">>
                     ELSE IF ~HasNonSpace(m) THEN <<FALSE, ErrEmpty>>
                     ELSE IF Len(m) > MaxInputLen THEN <<FALSE, ErrTooLong>>
                     ELSE <<FALSE, ErrInvalid>>

C7_Witness ==
    /\ ci_op = "validate"
    /\ Len(ci_prev) = MaxInputLen
    /\ ci_prev[1] = "VT"
    /\ ci_res = <<FALSE, ErrInvalid>>

=============================================================================
